---------------------------- MODULE Spec2Model ----------------------------
(***************************************************************************)
(* Verification model of the svm wire codecs, storage keys, host-import    *)
(* bridge and runtime C API.                                               *)
(*                                                                         *)
(*   SpecNibble : crates/svm-nibble/src/iter.rs        (NibbleIter)        *)
(*   SpecWire   : crates/svm-contract/src/wire/parse.rs (parse_contract)   *)
(*   SpecCodec  : crates/svm-codec (spawn-app, stored template, version)   *)
(*   SpecPage   : crates/svm-storage/src/default_page_hasher.rs            *)
(*   SpecImport : crates/svm-runtime/src/import.rs     (ExternImport)      *)
(*   SpecKV     : the storage engine behind svm_ffi_state_kv_create        *)
(*   SpecApi    : crates/svm-runtime-c-api/src/api.rs  (the C API)         *)
(*   SpecTest   : crates/svm-runtime-c-api/tests/api_tests.rs              *)
(*   SpecMacro  : crates/svm-sdk/macros/src/function.rs (rewrite_func)    *)
(*   SpecAlloc  : crates/svm-runtime-c-api/src/api.rs  (imports vector)    *)
(*   SpecVault  : apps/vault/core/src/actions/initialize.rs                *)
(*                                                                         *)
(* Bytes are integers 0..255, nibbles are integers 0..15.  Rust's          *)
(* Option::None is the integer None, outside both ranges.                  *)
(***************************************************************************)
EXTENDS Integers, Sequences, FiniteSets, TLC

VARIABLES
    iter,       \* NibbleIter: the iterator under test (SpecNibble)
    yielded,    \* every nibble `next` has returned so far, in order
    ret,        \* outcome of the last NibbleIter call
    debug,      \* build profile: TRUE when debug_assert! is compiled in
    wire_in,    \* parse_contract: the fields the input bytes were laid out from
    wire_bytes, \* parse_contract: the input buffer
    wire_out,   \* parse_contract: its return value
    tx,         \* svm-codec: the value to encode
    buf,        \* svm-codec: the encoded bytes (possibly cut or extended)
    tamper,     \* svm-codec: what was done to the bytes after encoding
    out,        \* svm-codec: the decoder's return value
    ph_hasher,  \* page hasher: the KeyHasher `H` the hasher is instantiated with
    ph_address, \* page hasher: the account address
    ph_log,     \* page hasher: the calls made so far, [page, key] each
    ph_other,   \* page hasher: the last call made for another account
    imp_import, \* import bridge: the ExternImport, its declared params and returns
    imp_args,   \* import bridge: the values the sandbox calls the import with
    imp_host,   \* import bridge: what the host function received and gave back
    imp_ret,    \* import bridge: the callback's return value
    imp_mem,    \* import bridge: the buffers of the call, and their misuses
    kv,         \* storage engine: committed snapshots, head and buffered writes
    kv_ref,     \* storage engine: the page values as of the last checkpoint,
                \* the writes since, and the last operation with its result
    runtime,    \* C API: the runtime behind the `runtime` pointer
    api_ret,    \* C API: the last call, its result code and output arguments
    api_log,    \* C API: the calls made so far
    fn_func,    \* svm-sdk macros: the function handed to rewrite_func
    fn_ret,     \* svm-sdk macros: what rewrite_func returned
    imports,    \* C API: the imports vector behind svm_imports_alloc
    imports_ret,\* C API: the last svm_import_func_new call and its result
    vault_tx,   \* vault app: the calldata of the spawn transaction
    vault,      \* vault app: the VaultData stores made by the constructor
    vault_ret,  \* vault app: the last call and its result
    pc          \* position of the component's driver

vars == <<iter, yielded, ret, debug, wire_in, wire_bytes, wire_out,
          tx, buf, tamper, out, ph_hasher, ph_address, ph_log, ph_other,
          imp_import, imp_args, imp_host, imp_ret, imp_mem,
          kv, kv_ref, runtime, api_ret, api_log,
          fn_func, fn_ret, imports, imports_ret, vault_tx, vault, vault_ret, pc>>

nibbleVars == <<iter, yielded, ret>>
wireVars   == <<wire_in, wire_bytes, wire_out>>
codecVars  == <<tx, buf, tamper, out>>
pageVars   == <<ph_hasher, ph_address, ph_log, ph_other>>
importVars == <<imp_import, imp_args, imp_host, imp_ret, imp_mem>>
kvVars     == <<kv, kv_ref>>
apiVars    == <<runtime, api_ret, api_log>>
macroVars  == <<fn_func, fn_ret>>
allocVars  == <<imports, imports_ret>>
vaultVars  == <<vault_tx, vault, vault_ret>>
extraVars  == <<macroVars, allocVars, vaultVars>>
runtimeVars == <<pageVars, importVars, kvVars, apiVars, extraVars>>

-----------------------------------------------------------------------------
(* Bounds                                                                  *)

MaxDataLen == 3      \* longest buffer handed to NibbleIter::new
MaxCount   == 2      \* largest `count` passed to read_bytes

(* Values                                                                  *)

None == -1

\* the bytes of the test vectors of iter.rs plus two with distinct nibbles
ByteSamples == {0, 48, 159, 241}

RECURSIVE SeqsUpTo(_, _)
SeqsUpTo(S, n) ==
    IF n = 0 THEN {<<>>}
    ELSE LET shorter == SeqsUpTo(S, n - 1)
         IN  shorter \cup {Append(s, e) : s \in {t \in shorter : Len(t) = n - 1}, e \in S}

-----------------------------------------------------------------------------
(* svm-nibble: NibbleIter                                                  *)

NibbleIter_new(d) ==
    [ data          |-> d,
      length        |-> Len(d),
      cursor        |-> 0,
      nibbles_read  |-> 0,
      last_byte     |-> None,
      no_more_bytes |-> FALSE ]

is_byte_aligned(it) == it.nibbles_read % 2 = 0

\* mutant: the mask of the right nibble used for the left one
LeftNibble_masks_low(byte) == byte % 16

\* (byte & 0xF0) >> 4
LeftNibble(byte) == (byte - (byte % 16)) \div 16

\* byte & 0x0F
RightNibble(byte) == byte % 16

\* mutant: the None at the end of the data is counted as a nibble
next_counts_end(it) ==
    IF it.last_byte = None
    THEN IF it.no_more_bytes
         THEN [it |-> it, nib |-> None]
         ELSE IF it.cursor >= it.length
              THEN [it |-> [it EXCEPT !.no_more_bytes = TRUE, !.nibbles_read = @ + 1],
                    nib |-> None]
              ELSE [it  |-> [it EXCEPT !.last_byte = it.data[it.cursor + 1],
                                       !.cursor = @ + 1,
                                       !.nibbles_read = @ + 1],
                    nib |-> LeftNibble(it.data[it.cursor + 1])]
    ELSE [it  |-> [it EXCEPT !.last_byte = None, !.nibbles_read = @ + 1],
          nib |-> RightNibble(it.last_byte)]


\* Iterator::next; returns the advanced iterator and the item (None at the end)
next(it) ==
    IF it.last_byte = None
    THEN IF it.no_more_bytes
         THEN [it |-> it, nib |-> None]
         ELSE IF it.cursor >= it.length
              THEN [it |-> [it EXCEPT !.no_more_bytes = TRUE], nib |-> None]
              ELSE LET byte == it.data[it.cursor + 1]
                   IN  [it  |-> [it EXCEPT !.last_byte = byte,
                                           !.cursor = @ + 1,
                                           !.nibbles_read = @ + 1],
                        nib |-> LeftNibble(byte)]
    ELSE [it  |-> [it EXCEPT !.last_byte = None, !.nibbles_read = @ + 1],
          nib |-> RightNibble(it.last_byte)]

\* self.take(n).collect(): calls next at most n times, stops at the first None
RECURSIVE take(_, _)
take(it, n) ==
    IF n = 0
    THEN [it |-> it, nibbles |-> <<>>]
    ELSE LET r == next(it)
         IN  IF r.nib = None
             THEN [it |-> r.it, nibbles |-> <<>>]
             ELSE LET rest == take(r.it, n - 1)
                  IN  [it |-> rest.it, nibbles |-> <<r.nib>> \o rest.nibbles]

\* pairs of nibbles to bytes, first nibble of a pair in bits 7..4; an odd
\* last nibble is the remainder
concat_nibbles(nibbles) ==
    [ bytes |-> [i \in 1..(Len(nibbles) \div 2) |->
                    nibbles[2 * i - 1] * 16 + nibbles[2 * i]],
      rem   |-> IF Len(nibbles) % 2 = 1 THEN nibbles[Len(nibbles)] ELSE None ]

\* read_bytes, after the nibbles were collected: concat_nibbles, and the
\* debug_assert!(rem.is_none()) of a debug build as `panic`
read_bytes_collected(t, c, dbg) ==
    [ it      |-> t.it,
      nibbles |-> t.nibbles,
      bytes   |-> c.bytes,
      panic   |-> dbg /\ c.rem # None ]

read_bytes_taken(t, dbg) == read_bytes_collected(t, concat_nibbles(t.nibbles), dbg)

read_bytes(it, count, dbg) == read_bytes_taken(take(it, 2 * count), dbg)

\* read_byte = read_bytes(1)[0]; indexing an empty Vec panics in every build
read_byte_first(r) ==
    [ it      |-> r.it,
      nibbles |-> r.nibbles,
      byte    |-> IF Len(r.bytes) >= 1 THEN r.bytes[1] ELSE None,
      panic   |-> r.panic \/ Len(r.bytes) = 0 ]

read_byte(it, dbg) == read_byte_first(read_bytes(it, 1, dbg))

\* mutant: the pad nibble is not skipped before the end-of-input test
ensure_eof_keeps_pad(it, dbg) ==
    LET last == next(it)
    IN  [ it      |-> last.it,
          nibbles |-> IF last.nib = None THEN <<>> ELSE <<last.nib>>,
          ok      |-> last.nib = None,
          panic   |-> FALSE ]

\* mutant: the alignment test is inverted, a nibble is skipped when aligned
ensure_eof_skips_when_aligned(it, dbg) ==
    LET pad   == IF is_byte_aligned(it)
                 THEN next(it)
                 ELSE [it |-> it, nib |-> None]
        last  == next(pad.it)
    IN  [ it      |-> last.it,
          nibbles |-> (IF pad.nib = None THEN <<>> ELSE <<pad.nib>>)
                      \o (IF last.nib = None THEN <<>> ELSE <<last.nib>>),
          ok      |-> last.nib = None,
          panic   |-> dbg /\ is_byte_aligned(it) /\ pad.nib = None ]

\* ensure_eof; `panic` is the debug_assert!(nib.is_some()) of a debug build
ensure_eof(it, dbg) ==
    LET pad   == IF is_byte_aligned(it) = FALSE
                 THEN next(it)
                 ELSE [it |-> it, nib |-> None]
        last  == next(pad.it)
    IN  IF dbg /\ is_byte_aligned(it) = FALSE /\ pad.nib = None
        THEN [ it |-> pad.it, nibbles |-> <<>>, ok |-> FALSE, panic |-> TRUE ]
        ELSE [ it      |-> last.it,
               nibbles |-> (IF pad.nib = None THEN <<>> ELSE <<pad.nib>>)
                           \o (IF last.nib = None THEN <<>> ELSE <<last.nib>>),
               ok      |-> last.nib = None,
               panic   |-> FALSE ]

-----------------------------------------------------------------------------
(* SpecNibble: a caller driving one NibbleIter                             *)

\* nibbles not yet handed out, counted from the buffer and the call log only
Unread == 2 * Len(iter.data) - Len(yielded)

IdleWire  == wire_in = <<>> /\ wire_bytes = <<>> /\ wire_out = <<>>
IdleCodec == tx = <<>> /\ buf = <<>> /\ tamper = <<>> /\ out = <<>>
IdleNibble == iter = <<>> /\ yielded = <<>> /\ ret = <<>>
IdlePage  == ph_hasher = <<>> /\ ph_address = <<>> /\ ph_log = <<>> /\ ph_other = <<>>
IdleImport ==
    imp_import = <<>> /\ imp_args = <<>> /\ imp_host = <<>> /\ imp_ret = <<>> /\ imp_mem = <<>>
IdleKV    == kv = <<>> /\ kv_ref = <<>>
IdleApi   == runtime = <<>> /\ api_ret = <<>> /\ api_log = <<>>
IdleMacro == fn_func = <<>> /\ fn_ret = <<>>
IdleAlloc == imports = <<>> /\ imports_ret = <<>>
IdleVault == vault_tx = <<>> /\ vault = <<>> /\ vault_ret = <<>>
IdleExtra == IdleMacro /\ IdleAlloc /\ IdleVault
IdleRuntime == IdlePage /\ IdleImport /\ IdleKV /\ IdleApi /\ IdleExtra

InitNibble ==
    /\ \E d \in SeqsUpTo(ByteSamples, MaxDataLen) : iter = NibbleIter_new(d)
    /\ yielded = <<>>
    /\ ret = [op |-> "new", unread |-> 0]
    /\ debug \in BOOLEAN
    /\ pc = "iter"
    /\ IdleWire
    /\ IdleCodec
    /\ IdleRuntime

CallNext ==
    /\ pc = "iter"
    /\ LET r == next(iter)
       IN  /\ iter' = r.it
           /\ yielded' = IF r.nib = None THEN yielded ELSE Append(yielded, r.nib)
           /\ ret' = [op |-> "next", nib |-> r.nib, unread |-> Unread]
    /\ UNCHANGED <<debug, pc, wireVars, codecVars, runtimeVars>>

CallReadBytes ==
    /\ pc = "iter"
    /\ \E count \in 0..MaxCount :
         LET r == read_bytes(iter, count, debug)
         IN  /\ iter' = r.it
             /\ yielded' = yielded \o r.nibbles
             /\ ret' = [op |-> "read_bytes", count |-> count, bytes |-> r.bytes,
                        panic |-> r.panic, unread |-> Unread]
             /\ pc' = IF r.panic THEN "panicked" ELSE "iter"
    /\ UNCHANGED <<debug, wireVars, codecVars, runtimeVars>>

CallReadByte ==
    /\ pc = "iter"
    /\ LET r == read_byte(iter, debug)
       IN  /\ iter' = r.it
           /\ yielded' = yielded \o r.nibbles
           /\ ret' = [op |-> "read_byte", byte |-> r.byte,
                      panic |-> r.panic, unread |-> Unread]
           /\ pc' = IF r.panic THEN "panicked" ELSE "iter"
    /\ UNCHANGED <<debug, wireVars, codecVars, runtimeVars>>

CallEnsureEof ==
    /\ pc = "iter"
    /\ LET r == ensure_eof(iter, debug)
       IN  /\ iter' = r.it
           /\ yielded' = yielded \o r.nibbles
           /\ ret' = [op |-> "ensure_eof", ok |-> r.ok, panic |-> r.panic,
                      aligned |-> is_byte_aligned(iter), unread |-> Unread]
           /\ pc' = IF r.panic THEN "panicked" ELSE "iter"
    /\ UNCHANGED <<debug, wireVars, codecVars, runtimeVars>>

NextNibble == CallNext \/ CallReadBytes \/ CallReadByte \/ CallEnsureEof

SpecNibble == InitNibble /\ [][NextNibble]_vars


\* the nibbles a buffer holds: for each byte, bits 7..4 and then bits 3..0
ExpectedNibble(k) ==
    IF k % 2 = 1
    THEN iter.data[(k + 1) \div 2] \div 16
    ELSE iter.data[k \div 2] % 16

NibblePcs == {"iter", "panicked"}

\* C6: ensure_eof returns Ok exactly when at most one nibble was still
\* unread at the call: none when byte-aligned, only the pad nibble when not
\* byte-aligned; it returns the error whenever a further nibble remained.
EnsureEofAcceptsAtMostPad ==
    (pc \in NibblePcs /\ ret.op = "ensure_eof" /\ ~ret.panic) =>
        /\ ret.ok <=> ret.unread <= 1
        /\ (ret.ok /\ ret.aligned) => ret.unread = 0
        /\ (ret.ok /\ ~ret.aligned) => ret.unread = 1
        /\ ret.unread >= 2 => ~ret.ok

\* ensure_eof accepted a stream that was not byte-aligned and held one pad nibble
EnsureEofPadSeen ==
    /\ pc = "iter" /\ ret.op = "ensure_eof"
    /\ ret.ok /\ ~ret.aligned /\ ret.unread = 1 /\ Len(yielded) >= 4

\* C7: over n bytes the iterator yields exactly 2n nibbles, per byte the
\* high nibble and then the low nibble, then None; is_byte_aligned is true
\* exactly when the number of nibbles yielded so far is even.
NibblesHighThenLow ==
    pc \in NibblePcs =>
        /\ Len(yielded) <= 2 * Len(iter.data)
        /\ \A k \in 1..Len(yielded) : yielded[k] = ExpectedNibble(k)
        /\ (ret.op = "next" /\ ret.nib = None) => Len(yielded) = 2 * Len(iter.data)
        /\ (ret.op = "next" /\ ret.nib # None) => ret.unread >= 1
        /\ is_byte_aligned(iter) <=> (Len(yielded) % 2 = 0)

\* next returned None after both nibbles of at least two bytes came out
NibblesAllYielded ==
    /\ pc = "iter" /\ ret.op = "next" /\ ret.nib = None
    /\ Len(iter.data) >= 2 /\ Len(yielded) = 2 * Len(iter.data)
    /\ \E k \in 1..Len(iter.data) : iter.data[k] = 159

\* C27: in every state of the iterator nibbles_read is 2 * cursor, less one
\* while a low nibble is pending (last_byte is Some); cursor <= length; a
\* low nibble is pending exactly when the iterator is not byte-aligned; the
\* debug_assert!(nib.is_some()) of ensure_eof never fails; and once next has
\* returned None (no_more_bytes is set) next returns None and leaves the
\* iterator, nibbles_read included, as it is.
CursorInvariant ==
    pc \in NibblePcs =>
        /\ iter.nibbles_read =
               2 * iter.cursor - (IF iter.last_byte # None THEN 1 ELSE 0)
        /\ iter.cursor <= iter.length
        /\ (iter.last_byte # None) <=> ~is_byte_aligned(iter)
        /\ ret.op = "ensure_eof" => ~ret.panic
        /\ (ret.op = "next" /\ ret.nib = None) => iter.no_more_bytes
        /\ iter.no_more_bytes => next(iter) = [it |-> iter, nib |-> None]

\* a debug build called ensure_eof with a low nibble pending: the pad nibble
\* was there, and the iterator is at its end
PadAssertionPassed ==
    /\ pc = "iter" /\ ret.op = "ensure_eof"
    /\ debug /\ ~ret.aligned /\ ~ret.panic
    /\ iter.no_more_bytes /\ iter.cursor = iter.length /\ iter.cursor >= 2

-----------------------------------------------------------------------------
(* Results and errors                                                      *)

Ok(v)  == [tag |-> "Ok", val |-> v]
Err(e) == [tag |-> "Err", err |-> e]
Panic  == [tag |-> "Panic"]

NotEnoughBytes(field)      == [kind |-> "NotEnoughBytes", field |-> field]
UnsupportedProtoVersion(v) == [kind |-> "UnsupportedProtoVersion", version |-> v]
EmptyName                  == [kind |-> "EmptyName"]
NameNotValidUTF8String     == [kind |-> "NameNotValidUTF8String"]
AdminsNotSupportedYet      == [kind |-> "AdminsNotSupportedYet"]
DepsNotSupportedYet        == [kind |-> "DepsNotSupportedYet"]

\* big-endian value of a byte sequence
RECURSIVE BigEndian(_)
BigEndian(bytes) ==
    IF bytes = <<>> THEN 0
    ELSE BigEndian(SubSeq(bytes, 1, Len(bytes) - 1)) * 256 + bytes[Len(bytes)]

\* the n-byte big-endian form of v
RECURSIVE ToBigEndian(_, _)
ToBigEndian(v, n) ==
    IF n = 0 THEN <<>> ELSE Append(ToBigEndian(v \div 256, n - 1), v % 256)

IsCont(b) == b >= 128 /\ b <= 191

\* String::from_utf8's validity test (std::str::from_utf8)
RECURSIVE IsValidUTF8(_)
IsValidUTF8(bytes) ==
    LET n       == Len(bytes)
        b1      == bytes[1]
        rest(k) == IsValidUTF8(SubSeq(bytes, k + 1, n))
    IN  IF n = 0 THEN TRUE
        ELSE IF b1 <= 127 THEN rest(1)
        ELSE IF b1 >= 194 /\ b1 <= 223
             THEN n >= 2 /\ IsCont(bytes[2]) /\ rest(2)
        ELSE IF b1 >= 224 /\ b1 <= 239
             THEN /\ n >= 3
                  /\ IsCont(bytes[2]) /\ IsCont(bytes[3])
                  /\ (b1 = 224 => bytes[2] >= 160)
                  /\ (b1 = 237 => bytes[2] <= 159)
                  /\ rest(3)
        ELSE IF b1 >= 240 /\ b1 <= 244
             THEN /\ n >= 4
                  /\ IsCont(bytes[2]) /\ IsCont(bytes[3]) /\ IsCont(bytes[4])
                  /\ (b1 = 240 => bytes[2] >= 144)
                  /\ (b1 = 244 => bytes[2] <= 143)
                  /\ rest(4)
        ELSE FALSE

-----------------------------------------------------------------------------
(* svm-contract: wire/parse.rs                                             *)

\* [0; 32] in parse_address
AddressLen32 == 32

Cursor_new(bytes) == [inner |-> bytes, pos |-> 0]

\* Vec::<u8>::with_capacity(n): room for n bytes, length 0
with_capacity(n) == <<>>

\* Read::read_exact(&mut buf): fills the Len(buf) bytes of buf or fails
read_exact(cursor, buffer) ==
    LET n == Len(buffer)
    IN  IF n > Len(cursor.inner) - cursor.pos
        THEN [is_err |-> TRUE, cursor |-> cursor, buf |-> buffer]
        ELSE [is_err |-> FALSE,
              cursor |-> [cursor EXCEPT !.pos = @ + n],
              buf    |-> SubSeq(cursor.inner, cursor.pos + 1, cursor.pos + n)]

\* byteorder's read_u8 / read_u16 / read_u32 / read_u64 ::<BigEndian>
read_uint(cursor, width) ==
    LET r == read_exact(cursor, [i \in 1..width |-> 0])
    IN  [is_err |-> r.is_err, cursor |-> r.cursor, val |-> BigEndian(r.buf)]

parse_version(cursor) ==
    LET res == read_uint(cursor, 4)
    IN  IF res.is_err THEN [cursor |-> res.cursor, r |-> Err(NotEnoughBytes("Version"))]
        ELSE IF res.val # 0
             THEN [cursor |-> res.cursor, r |-> Err(UnsupportedProtoVersion(res.val))]
             ELSE [cursor |-> res.cursor, r |-> Ok(res.val)]

parse_name(cursor) ==
    LET res      == read_uint(cursor, 1)
        name_len == res.val
        rd       == read_exact(res.cursor, with_capacity(name_len))
        name_buf == rd.buf
    IN  IF res.is_err THEN [cursor |-> res.cursor, r |-> Err(NotEnoughBytes("NameLength"))]
        ELSE IF name_len = 0 THEN [cursor |-> res.cursor, r |-> Err(EmptyName)]
        ELSE IF rd.is_err THEN [cursor |-> rd.cursor, r |-> Err(NotEnoughBytes("Name"))]
        ELSE IF ~IsValidUTF8(name_buf)
             \* name.is_err(): Ok(name.unwrap()) unwraps an Err
             THEN [cursor |-> rd.cursor, r |-> Panic]
             ELSE [cursor |-> rd.cursor, r |-> Err(NameNotValidUTF8String)]

parse_address(cursor, field) ==
    LET res == read_exact(cursor, [i \in 1..AddressLen32 |-> 0])
    IN  IF res.is_err THEN [cursor |-> res.cursor, r |-> Err(NotEnoughBytes(field))]
        ELSE [cursor |-> res.cursor, r |-> Ok(res.buf)]

parse_author(cursor) == parse_address(cursor, "Author")

parse_admins(cursor) ==
    LET res == read_uint(cursor, 1)
    IN  IF res.is_err THEN [cursor |-> res.cursor, r |-> Err(NotEnoughBytes("AdminsCount"))]
        ELSE IF res.val > 0 THEN [cursor |-> res.cursor, r |-> Err(AdminsNotSupportedYet)]
        ELSE [cursor |-> res.cursor, r |-> Ok(<<>>)]

parse_deps(cursor) ==
    LET res == read_uint(cursor, 2)
    IN  IF res.is_err THEN [cursor |-> res.cursor, r |-> Err(NotEnoughBytes("DepsCount"))]
        ELSE IF res.val > 0 THEN [cursor |-> res.cursor, r |-> Err(DepsNotSupportedYet)]
        ELSE [cursor |-> res.cursor, r |-> Ok(<<>>)]

parse_code(cursor) ==
    LET res      == read_uint(cursor, 8)
        code_len == res.val
        rd       == read_exact(res.cursor, with_capacity(code_len))
    IN  IF res.is_err THEN [cursor |-> res.cursor, r |-> Err(NotEnoughBytes("CodeLength"))]
        ELSE IF rd.is_err THEN [cursor |-> rd.cursor, r |-> Err(NotEnoughBytes("Code"))]
        ELSE [cursor |-> rd.cursor, r |-> Ok(rd.buf)]

\* each `?` returns the first error (or unwinds the first panic)
parse_contract(bytes) ==
    LET cursor == Cursor_new(bytes)
        v      == parse_version(cursor)
        name   == parse_name(v.cursor)
        author == parse_author(name.cursor)
        admins == parse_admins(author.cursor)
        deps   == parse_deps(admins.cursor)
        wasm   == parse_code(deps.cursor)
    IN  IF v.r.tag # "Ok" THEN v.r
        ELSE IF name.r.tag # "Ok" THEN name.r
        ELSE IF author.r.tag # "Ok" THEN author.r
        ELSE IF admins.r.tag # "Ok" THEN admins.r
        ELSE IF deps.r.tag # "Ok" THEN deps.r
        ELSE IF wasm.r.tag # "Ok" THEN wasm.r
        ELSE Ok([ name   |-> name.r.val,
                  wasm   |-> wasm.r.val,
                  author |-> author.r.val,
                  admins |-> admins.r.val ])

-----------------------------------------------------------------------------
(* SpecWire: parse_contract applied to a laid-out contract, whole, cut     *)
(* short, or followed by trailing bytes                                    *)

\* a 32-byte address with every byte equal to b
Address32(b) == [i \in 1..AddressLen32 |-> b]

WireVersions == {0, 1}
WireNames    == { <<>>, <<97>>, <<104, 105>>, <<195, 169>>, <<255, 97>> }
WireAuthors  == { Address32(17), Address32(165) }
WireCounts   == {0, 1}
WireCodes    == { <<>>, <<12, 0, 13>> }
WireExtras   == { <<>>, <<171>>, <<171, 205>> }

\* the wire layout parse_contract reads: version (u32), name length (u8),
\* name, author, admin count (u8), dependency count (u16), code length (u64),
\* code
WireLayout(f) ==
    ToBigEndian(f.version, 4) \o <<Len(f.name)>> \o f.name \o f.author
        \o <<f.admins>> \o ToBigEndian(f.deps, 2)
        \o ToBigEndian(Len(f.code), 8) \o f.code

WireInputs ==
    LET whole == [ version : WireVersions, name : WireNames, author : WireAuthors,
                   admins : WireCounts, deps : WireCounts, code : WireCodes ]
    IN  { [ version |-> f.version, name |-> f.name, author |-> f.author,
            admins |-> f.admins, deps |-> f.deps, code |-> f.code,
            keep |-> k, extra |-> e ] :
            f \in whole, k \in 0..60, e \in WireExtras }

InitWire ==
    /\ wire_in \in { f \in WireInputs :
                        /\ f.keep <= Len(WireLayout(f))
                        /\ f.extra # <<>> => f.keep = Len(WireLayout(f)) }
    /\ wire_bytes = SubSeq(WireLayout(wire_in), 1, wire_in.keep) \o wire_in.extra
    /\ wire_out = <<>>
    /\ debug = FALSE
    /\ pc = "wire"
    /\ IdleNibble
    /\ IdleCodec
    /\ IdleRuntime

ParseContract ==
    /\ pc = "wire"
    /\ wire_out' = parse_contract(wire_bytes)
    /\ pc' = "parsed"
    /\ UNCHANGED <<wire_in, wire_bytes, debug, nibbleVars, codecVars, runtimeVars>>

NextWire == ParseContract

SpecWire == InitWire /\ [][NextWire]_vars

WireWhole == wire_in.keep = Len(WireLayout(wire_in))

WireNameOk == Len(wire_in.name) > 0 /\ IsValidUTF8(wire_in.name)

\* C5: for a well-formed input (version 0, non-empty valid UTF-8 name,
\* author, admin count 0, dependency count 0, code length and code)
\* parse_contract returns Ok with the input's name, author and wasm bytes.
ParseContractReconstructs ==
    ( /\ pc = "parsed"
      /\ WireWhole /\ wire_in.extra = <<>>
      /\ wire_in.version = 0 /\ WireNameOk
      /\ wire_in.admins = 0 /\ wire_in.deps = 0 ) =>
        /\ wire_out.tag = "Ok"
        /\ wire_out.val.name = wire_in.name
        /\ wire_out.val.author = wire_in.author
        /\ wire_out.val.wasm = wire_in.code

\* C9: parse_name fails distinctly per cause: NotEnoughBytes(NameLength)
\* when the length byte is missing, EmptyName when the length is 0,
\* NotEnoughBytes(Name) when fewer name bytes than announced follow, and
\* NameNotValidUTF8String exactly when the name bytes are present but are
\* not valid UTF-8.
ParseNameFailsPerCause ==
    (pc = "parsed" /\ wire_in.version = 0 /\ wire_in.keep >= 4) =>
        LET n    == Len(wire_in.name)
            keep == wire_in.keep
        IN  /\ keep = 4 => wire_out = Err(NotEnoughBytes("NameLength"))
            /\ (keep >= 5 /\ n = 0) => wire_out = Err(EmptyName)
            /\ (keep >= 5 /\ n > 0 /\ keep < 5 + n) =>
                   wire_out = Err(NotEnoughBytes("Name"))
            /\ wire_out = Err(NameNotValidUTF8String) <=>
                   (keep >= 5 + n /\ n > 0 /\ ~IsValidUTF8(wire_in.name))

\* C10: parse_contract never returns Ok for an input whose protocol version,
\* admin count or dependency count is non-zero; it returns
\* UnsupportedProtoVersion(version), AdminsNotSupportedYet or
\* DepsNotSupportedYet for the first such field in wire order.
ParseContractRejectsNonZero ==
    pc = "parsed" =>
        LET f         == wire_in
            adminsEnd == 4 + 1 + Len(f.name) + AddressLen32 + 1
            depsEnd   == adminsEnd + 2
        IN  /\ ( \/ (f.keep >= 4 /\ f.version # 0)
                 \/ (f.keep >= adminsEnd /\ f.admins # 0)
                 \/ (f.keep >= depsEnd /\ f.deps # 0) ) => wire_out.tag # "Ok"
            /\ (f.keep >= 4 /\ f.version # 0) =>
                   wire_out = Err(UnsupportedProtoVersion(f.version))
            /\ (f.version = 0 /\ WireNameOk /\ f.keep >= adminsEnd /\ f.admins # 0) =>
                   wire_out = Err(AdminsNotSupportedYet)
            /\ ( /\ f.version = 0 /\ WireNameOk /\ f.admins = 0
                 /\ f.keep >= depsEnd /\ f.deps # 0 ) =>
                   wire_out = Err(DepsNotSupportedYet)

-----------------------------------------------------------------------------
(* svm-nibble writer and the svm-codec field codecs                        *)

\* a NibbleWriter is the sequence of nibbles written so far
NibbleWriter_new == <<>>

\* each byte as its high nibble and then its low nibble
RECURSIVE write_bytes(_, _)
write_bytes(w, bytes) ==
    IF bytes = <<>> THEN w
    ELSE write_bytes(w \o << bytes[1] \div 16, bytes[1] % 16 >>, Tail(bytes))

\* flush to bytes, padding an odd nibble count with a zero low nibble
into_bytes(w) ==
    concat_nibbles(IF Len(w) % 2 = 1 THEN Append(w, 0) ELSE w).bytes

\* 20-byte addresses
AddressLen == 20

\* the 3-bit groups of a version, most significant first
RECURSIVE VersionGroups(_)
VersionGroups(v) ==
    IF v < 8 THEN <<v>> ELSE Append(VersionGroups(v \div 8), v % 8)

\* one nibble per 3-bit group; the top bit of a nibble says another follows
encode_version(version, w) ==
    LET g == VersionGroups(version)
    IN  w \o [i \in 1..Len(g) |-> IF i < Len(g) THEN 8 + g[i] ELSE g[i]]

RECURSIVE decode_version_from(_, _)
decode_version_from(it, acc) ==
    LET n == next(it)
    IN  IF n.nib = None
        THEN [it |-> n.it, r |-> Err(NotEnoughBytes("Version"))]
        ELSE LET v == acc * 8 + (n.nib % 8)
             IN  IF n.nib >= 8
                 THEN decode_version_from(n.it, v)
                 ELSE [it |-> n.it, r |-> Ok(v)]

decode_version(it) == decode_version_from(it, 0)

\* a value of fixed or announced size: `count` raw bytes, or "not enough input"
decode_bytes_read(rb, count, field) ==
    IF rb.panic THEN [it |-> rb.it, r |-> Panic]
    ELSE IF Len(rb.bytes) # count
         THEN [it |-> rb.it, r |-> Err(NotEnoughBytes(field))]
         ELSE [it |-> rb.it, r |-> Ok(rb.bytes)]

decode_bytes(it, count, field, dbg) ==
    decode_bytes_read(read_bytes(it, count, dbg), count, field)

encode_address(addr, w) == write_bytes(w, addr)

decode_address(it, field, dbg) == decode_bytes(it, AddressLen, field, dbg)

\* a one-byte length and that many raw bytes
encode_blob(bytes, w) == write_bytes(write_bytes(w, <<Len(bytes)>>), bytes)

decode_blob_body(len, field, dbg) ==
    IF len.r.tag # "Ok" THEN len
    ELSE decode_bytes(len.it, len.r.val[1], field, dbg)

decode_blob(it, len_field, field, dbg) ==
    decode_blob_body(decode_bytes(it, 1, len_field, dbg), field, dbg)

\* strings are their UTF-8 bytes
encode_string(s, w) == encode_blob(s, w)

decode_string_utf8(body, field) ==
    IF body.r.tag # "Ok" THEN body
    ELSE IF ~IsValidUTF8(body.r.val)
         THEN [it |-> body.it, r |-> Err([kind |-> "InvalidUTF8String", field |-> field])]
         ELSE body

decode_string(it, len_field, field, dbg) ==
    decode_string_utf8(decode_blob(it, len_field, field, dbg), field)

encode_abi_data(calldata, w) == encode_blob(calldata, w)

decode_abi_data(it, dbg) == decode_blob(it, "CalldataLength", "Calldata", dbg)

-----------------------------------------------------------------------------
(* svm-codec: app/wire.rs                                                  *)

encode_template(spawn, w) == encode_address(spawn.app.template, w)

encode_name(spawn, w) == encode_string(spawn.app.name, w)

encode_ctor(spawn, w) == encode_string(spawn.ctor_name, w)

encode_ctor_calldata(spawn, w) == encode_abi_data(spawn.calldata, w)

\* mutant: the constructor name is written before the app name
encode_spawn_app_ctor_first(spawn, w) ==
    encode_ctor_calldata(spawn,
        encode_name(spawn,
            encode_ctor(spawn,
                encode_template(spawn,
                    encode_version(spawn.app.version, w)))))

encode_spawn_app(spawn, w) ==
    encode_ctor_calldata(spawn,
        encode_ctor(spawn,
            encode_name(spawn,
                encode_template(spawn,
                    encode_version(spawn.app.version, w)))))

decode_template(it, dbg) == decode_address(it, "TemplateAddr", dbg)

decode_name(it, dbg) == decode_string(it, "NameLength", "Name", dbg)

decode_ctor(it, dbg) == decode_string(it, "NameLength", "Name", dbg)

decode_ctor_calldata(it, dbg) == decode_abi_data(it, dbg)

\* `at` names the field whose decoder returned (the last one on success)
decode_spawn_app(it, dbg) ==
    LET version   == decode_version(it)
        template  == decode_template(version.it, dbg)
        name      == decode_name(template.it, dbg)
        ctor_name == decode_ctor(name.it, dbg)
        calldata  == decode_ctor_calldata(ctor_name.it, dbg)
        stop(d, f) == [it |-> d.it, r |-> d.r, at |-> f]
    IN  IF version.r.tag # "Ok" THEN stop(version, "version")
        ELSE IF template.r.tag # "Ok" THEN stop(template, "template")
        ELSE IF name.r.tag # "Ok" THEN stop(name, "name")
        ELSE IF ctor_name.r.tag # "Ok" THEN stop(ctor_name, "ctor_name")
        ELSE IF calldata.r.tag # "Ok" THEN stop(calldata, "calldata")
        ELSE [ it |-> calldata.it,
               at |-> "calldata",
               r  |-> Ok([ app       |-> [ version  |-> version.r.val,
                                           name     |-> name.r.val,
                                           template |-> template.r.val ],
                           ctor_name |-> ctor_name.r.val,
                           calldata  |-> calldata.r.val ]) ]

-----------------------------------------------------------------------------
(* svm-codec: template/serialize.rs                                        *)

\* version, name, code (length and bytes), data layout (count and lengths)
encode_deploy_template(template, w) ==
    encode_blob(template.data,
        encode_blob(template.code,
            encode_string(template.name,
                encode_version(template.version, w))))

decode_deploy_template(it, dbg) ==
    LET version == decode_version(it)
        name    == decode_string(version.it, "NameLength", "Name", dbg)
        code    == decode_blob(name.it, "CodeLength", "Code", dbg)
        data    == decode_blob(code.it, "DataLayoutLength", "DataLayout", dbg)
    IN  IF version.r.tag # "Ok" THEN version
        ELSE IF name.r.tag # "Ok" THEN name
        ELSE IF code.r.tag # "Ok" THEN code
        ELSE IF data.r.tag # "Ok" THEN data
        ELSE [ it |-> data.it,
               r  |-> Ok([ version |-> version.r.val,
                           name    |-> name.r.val,
                           code    |-> code.r.val,
                           data    |-> data.r.val ]) ]

\* mutant: the author is written before the template
serialize_author_first(template, author) ==
    into_bytes(encode_deploy_template(template,
                   encode_address(author, NibbleWriter_new)))

\* DefaultAppTemplateSerializer::serialize
serialize(template, author) ==
    into_bytes(encode_address(author,
                   encode_deploy_template(template, NibbleWriter_new)))

Some(v)    == [tag |-> "Some", val |-> v]
NoneOption == [tag |-> "None"]

\* DefaultAppTemplateDeserializer::deserialize
deserialize(bytes, dbg) ==
    LET it       == NibbleIter_new(bytes)
        template == decode_deploy_template(it, dbg)
        author   == decode_address(template.it, "Author", dbg)
    IN  IF template.r.tag = "Panic" THEN Panic
        ELSE IF template.r.tag # "Ok" THEN NoneOption
        ELSE IF author.r.tag = "Panic" THEN Panic
        ELSE IF author.r.tag # "Ok" THEN NoneOption
        ELSE Some(<<template.r.val, author.r.val>>)

-----------------------------------------------------------------------------
(* SpecCodec: a value is encoded, the bytes are left whole, cut short or   *)
(* followed by trailing bytes, and then decoded                            *)

MaxSmallVersion == 20   \* versions 0..MaxSmallVersion are all tried
MaxExtra        == 2    \* most trailing bytes appended to an encoding

\* a 20-byte address with every byte equal to b
Address20(b) == [i \in 1..AddressLen |-> b]

\* the versions of encode_decode_version, and the small ones
VersionSamples == (0..MaxSmallVersion) \cup {255, 65535, 2 ^ 20}

SpawnSamples ==
    [ app       : [ version  : {0, 8, 300},
                    name     : { <<>>, <<97>>, <<109, 121>>, <<195, 169>> },
                    template : { Address20(17), Address20(165) } ],
      ctor_name : { <<>>, <<105>>, <<109, 121>> },
      calldata  : { <<>>, <<16, 32, 48>>, <<255>> } ]

TemplateSamples ==
    [ version : {0, 8},
      name    : { <<>>, <<77, 121>> },
      code    : { <<>>, <<12, 0, 13, 14>> },
      data    : { <<>>, <<10, 20, 30>> } ]

AuthorSamples == { Address20(17), Address20(165) }

ExtraBytes == <<171, 205, 239, 1>>

InitCodec ==
    /\ tx \in { [kind |-> "version", version |-> v] : v \in VersionSamples }
         \cup { [kind |-> "spawn", spawn |-> s] : s \in SpawnSamples }
         \cup { [kind |-> "template", template |-> t, author |-> a] :
                    t \in TemplateSamples, a \in AuthorSamples }
    /\ buf = <<>>
    /\ tamper = [op |-> "none", n |-> 0]
    /\ out = <<>>
    /\ debug \in BOOLEAN
    /\ pc = "tx"
    /\ IdleNibble
    /\ IdleWire
    /\ IdleRuntime

\* version/mod.rs assert_encode_decode, first half
EncodeVersion ==
    /\ pc = "tx" /\ tx.kind = "version"
    /\ buf' = into_bytes(encode_version(tx.version, NibbleWriter_new))
    /\ pc' = "encoded"
    /\ UNCHANGED <<tx, tamper, out, debug, nibbleVars, wireVars, runtimeVars>>

EncodeSpawnApp ==
    /\ pc = "tx" /\ tx.kind = "spawn"
    /\ buf' = into_bytes(encode_spawn_app(tx.spawn, NibbleWriter_new))
    /\ pc' = "encoded"
    /\ UNCHANGED <<tx, tamper, out, debug, nibbleVars, wireVars, runtimeVars>>

SerializeTemplate ==
    /\ pc = "tx" /\ tx.kind = "template"
    /\ buf' = serialize(tx.template, tx.author)
    /\ pc' = "encoded"
    /\ UNCHANGED <<tx, tamper, out, debug, nibbleVars, wireVars, runtimeVars>>

\* the receiver is handed only the first k bytes
CutBuffer ==
    /\ pc = "encoded" /\ tamper.op = "none"
    /\ \E k \in 0..(Len(buf) - 1) :
         /\ buf' = SubSeq(buf, 1, k)
         /\ tamper' = [op |-> "cut", n |-> k]
    /\ UNCHANGED <<tx, out, debug, pc, nibbleVars, wireVars, runtimeVars>>

\* the receiver is handed the encoding followed by n more bytes
ExtendBuffer ==
    /\ pc = "encoded" /\ tamper.op = "none"
    /\ \E n \in 1..MaxExtra :
         /\ buf' = buf \o SubSeq(ExtraBytes, 1, n)
         /\ tamper' = [op |-> "extend", n |-> n]
    /\ UNCHANGED <<tx, out, debug, pc, nibbleVars, wireVars, runtimeVars>>

\* version/mod.rs assert_encode_decode, second half: decode_version and
\* then ensure_eof on the same iterator
DecodeVersion ==
    /\ pc = "encoded" /\ tx.kind = "version"
    /\ LET d   == decode_version(NibbleIter_new(buf))
           eof == ensure_eof(d.it, debug)
       IN  out' = [ r   |-> d.r,
                    eof |-> IF d.r.tag # "Ok" \/ eof.panic THEN Panic
                            ELSE IF eof.ok THEN Ok(<<>>) ELSE Err("eof") ]
    /\ pc' = "decoded"
    /\ UNCHANGED <<tx, buf, tamper, debug, nibbleVars, wireVars, runtimeVars>>

DecodeSpawnApp ==
    /\ pc = "encoded" /\ tx.kind = "spawn"
    /\ LET d == decode_spawn_app(NibbleIter_new(buf), debug)
       IN  out' = [r |-> d.r, at |-> d.at]
    /\ pc' = "decoded"
    /\ UNCHANGED <<tx, buf, tamper, debug, nibbleVars, wireVars, runtimeVars>>

DeserializeTemplate ==
    /\ pc = "encoded" /\ tx.kind = "template"
    /\ out' = [r |-> deserialize(buf, debug)]
    /\ pc' = "decoded"
    /\ UNCHANGED <<tx, buf, tamper, debug, nibbleVars, wireVars, runtimeVars>>

NextCodec ==
    \/ EncodeVersion \/ EncodeSpawnApp \/ SerializeTemplate
    \/ CutBuffer \/ ExtendBuffer
    \/ DecodeVersion \/ DecodeSpawnApp \/ DeserializeTemplate

SpecCodec == InitCodec /\ [][NextCodec]_vars

\* all nibbles of a byte sequence, high nibble first
NibblesOf(bytes) ==
    [k \in 1..(2 * Len(bytes)) |->
        IF k % 2 = 1 THEN bytes[(k + 1) \div 2] \div 16 ELSE bytes[k \div 2] % 16]

IsPrefix(s, t) == Len(s) <= Len(t) /\ SubSeq(t, 1, Len(s)) = s

Whole == tamper.op = "none"

\* the nibbles of the five fields of a spawn-app transaction, in wire order
SpawnFieldNibbles(s) ==
    encode_version(s.app.version, <<>>)
        \o NibblesOf(s.app.template)
        \o NibblesOf(<<Len(s.app.name)>> \o s.app.name)
        \o NibblesOf(<<Len(s.ctor_name)>> \o s.ctor_name)
        \o NibblesOf(<<Len(s.calldata)>> \o s.calldata)

\* C1: encode_spawn_app writes version, template address, app name,
\* constructor name and constructor calldata in that order, and
\* decode_spawn_app(encode_spawn_app(x)) returns Ok(x).
SpawnAppRoundTrip ==
    (tx.kind = "spawn" /\ Whole) =>
        /\ pc \in {"encoded", "decoded"} =>
               IsPrefix(SpawnFieldNibbles(tx.spawn), NibblesOf(buf))
        /\ pc = "decoded" => out.r = Ok(tx.spawn)

\* a spawn-app transaction with distinct, non-empty names came back whole
SpawnAppDecoded ==
    /\ pc = "decoded" /\ tx.kind = "spawn" /\ Whole
    /\ out.r.tag = "Ok"
    /\ tx.spawn.app.name # <<>> /\ tx.spawn.ctor_name # <<>>
    /\ tx.spawn.app.name # tx.spawn.ctor_name
    /\ tx.spawn.calldata # <<>> /\ tx.spawn.app.version = 300

\* C2: for the versions from 0 up to 2^20, decode_version over the bytes of
\* encode_version(v) returns v, and ensure_eof right after the decode
\* succeeds.
VersionRoundTripExact ==
    (pc = "decoded" /\ tx.kind = "version" /\ Whole) =>
        /\ out.r = Ok(tx.version)
        /\ out.eof.tag = "Ok"

\* version 2^20 (seven nibbles and a pad nibble) came back and hit the end
VersionDecodedWithPad ==
    /\ pc = "decoded" /\ tx.kind = "version" /\ Whole
    /\ tx.version = 2 ^ 20 /\ out.r.tag = "Ok" /\ out.eof.tag = "Ok"
    /\ Len(buf) = 4

\* C3: deserialize(serialize(t, a)) returns Some((t, a)).
StoredTemplateRoundTrip ==
    (pc = "decoded" /\ tx.kind = "template" /\ Whole) =>
        out.r = Some(<<tx.template, tx.author>>)

\* a template with a name, code and a data layout came back whole
StoredTemplateDecoded ==
    /\ pc = "decoded" /\ tx.kind = "template" /\ Whole
    /\ out.r.tag = "Some"
    /\ tx.template.name # <<>> /\ tx.template.code # <<>> /\ tx.template.data # <<>>

\* C4: a valid encoding followed by extra bytes is rejected:
\* decode_spawn_app and deserialize fail instead of returning the value.
TrailingBytesRejected ==
    (pc = "decoded" /\ tx.kind \in {"spawn", "template"} /\ tamper.op = "extend") =>
        out.r.tag \notin {"Ok", "Some"}

\* the field a tag stands for: the first field in wire order whose decoder
\* reports it
TagOwner(field) ==
    CASE field = "Version" -> "version"
      [] field = "TemplateAddr" -> "template"
      [] field \in {"NameLength", "Name"} -> "name"
      [] field \in {"CalldataLength", "Calldata"} -> "calldata"
      [] OTHER -> "ctor_name"

\* C8: a decode_spawn_app failure carries a field tag that identifies the
\* field that was short or malformed; no two fields share a tag.
SpawnErrorNamesField ==
    (pc = "decoded" /\ tx.kind = "spawn" /\ out.r.tag = "Err") =>
        TagOwner(out.r.err.field) = out.at

-----------------------------------------------------------------------------
(* svm-storage: PageHasherImpl                                             *)
(*                                                                         *)
(* A u32 page index is held as its four little-endian bytes, an Address as *)
(* its 32 bytes, least significant first.                                  *)

MaxPageCalls == 2    \* number of hash calls recorded per behaviour

PageAddrLen == 33

\* Address + u32: the 33-byte little-endian sum, the last byte is the carry
add(address, page) ==
    LET a(i) == IF i <= Len(address) THEN address[i] ELSE 0
        b(i) == IF i <= Len(page) THEN page[i] ELSE 0
        carry[i \in 1..PageAddrLen] ==
            IF i = 1 THEN 0 ELSE (a(i - 1) + b(i - 1) + carry[i - 1]) \div 256
    IN  [i \in 1..PageAddrLen |-> (a(i) + b(i) + carry[i]) % 256]

RECURSIVE SumBytes(_)
SumBytes(bytes) ==
    IF bytes = <<>> THEN 0 ELSE bytes[1] + SumBytes(Tail(bytes))

\* the KeyHasher implementations the page hasher is instantiated with
KeyHashers == {"wide", "fold", "first"}

\* H::hash(bytes)
KeyHasher_hash(H, bytes) ==
    CASE H = "wide"  -> bytes
      [] H = "fold"  -> <<SumBytes(bytes) % 256>>
      [] H = "first" -> <<bytes[1]>>

hash_ignores_page(H, address, page) ==
    LET page_addr == add(address, <<0, 0, 0, 0>>)
    IN  KeyHasher_hash(H, page_addr)

\* PageHasherImpl::<H>::hash(address, page)
hash(H, address, page) ==
    LET page_addr == add(address, page)
    IN  KeyHasher_hash(H, page_addr)

(* SpecPage: one account address, pages hashed one call after another      *)

\* Address::from(0x44_33_22_11 as u32)
AddressFrom(b) == [i \in 1..AddressLen32 |-> IF i <= Len(b) THEN b[i] ELSE 0]

PageAddresses ==
    { AddressFrom(<<17, 34, 51, 68>>),
      AddressFrom(<<>>),
      AddressFrom(<<255, 255, 255, 255>>),
      [i \in 1..AddressLen32 |-> 255],
      [i \in 1..AddressLen32 |-> IF i = 1 THEN 254 ELSE 255] }

PageIndexes ==
    { <<0, 0, 0, 0>>, <<1, 0, 0, 0>>, <<3, 0, 0, 0>>, <<0, 1, 0, 0>>,
      <<239, 221, 204, 187>>, <<255, 255, 255, 255>> }

InitPage ==
    /\ ph_hasher \in KeyHashers
    /\ ph_address \in PageAddresses
    /\ ph_log = <<>>
    /\ ph_other = <<>>
    /\ debug = FALSE
    /\ pc = "page"
    /\ IdleNibble
    /\ IdleExtra
    /\ IdleWire
    /\ IdleCodec
    /\ IdleImport
    /\ IdleKV
    /\ IdleApi

HashPage ==
    /\ pc = "page"
    /\ Len(ph_log) < MaxPageCalls
    /\ \E page \in PageIndexes :
          ph_log' = Append(ph_log,
                           [page |-> page, key |-> hash(ph_hasher, ph_address, page)])
    /\ UNCHANGED <<ph_hasher, ph_address, ph_other, debug, pc,
                   nibbleVars, wireVars, codecVars, extraVars, importVars, kvVars, apiVars>>

\* the same hasher called, last, for a page of another account
HashOtherAccountPage ==
    /\ pc = "page"
    /\ \E address \in PageAddresses \ {ph_address}, page \in PageIndexes :
          ph_other' = [address |-> address, page |-> page,
                       key |-> hash(ph_hasher, address, page)]
    /\ pc' = "other_page"
    /\ UNCHANGED <<ph_hasher, ph_address, ph_log, debug,
                   nibbleVars, wireVars, codecVars, extraVars, importVars, kvVars, apiVars>>

NextPage == HashPage \/ HashOtherAccountPage

SpecPage == InitPage /\ [][NextPage]_vars

\* the value of little-endian bytes, modulo m
RECURSIVE LittleEndianMod(_, _)
LittleEndianMod(bytes, m) ==
    IF bytes = <<>> THEN 0
    ELSE (bytes[1] + 256 * LittleEndianMod(Tail(bytes), m)) % m

Moduli == {251, 257, 65521}

IsLittleEndianSum(sum, address, page) ==
    /\ Len(sum) = PageAddrLen
    /\ \A i \in 1..PageAddrLen : sum[i] \in 0..255
    /\ sum[PageAddrLen] \in {0, 1}
    /\ \A m \in Moduli :
          LittleEndianMod(sum, m) =
              (LittleEndianMod(address, m) + LittleEndianMod(page, m)) % m

\* C11: every key returned by PageHasher::hash(address, page) is the key
\* hasher applied to the 33-byte little-endian sum address + page (last byte
\* the carry); two calls with the same page return the same key, and two
\* calls with distinct pages hand distinct inputs to the key hasher.
PageKeyIsHashOfSum ==
    pc = "page" =>
        /\ \A i \in 1..Len(ph_log) :
              /\ IsLittleEndianSum(add(ph_address, ph_log[i].page),
                                   ph_address, ph_log[i].page)
              /\ ph_log[i].key =
                     KeyHasher_hash(ph_hasher, add(ph_address, ph_log[i].page))
        /\ \A i, j \in 1..Len(ph_log) :
              /\ ph_log[i].page = ph_log[j].page => ph_log[i].key = ph_log[j].key
              /\ ph_log[i].page # ph_log[j].page =>
                     add(ph_address, ph_log[i].page) # add(ph_address, ph_log[j].page)

\* default_page_hasher_sanity: address 0x44332211 and page 3 give the input
\* 14 22 33 44 00 .. 00; another page of the same address gives another key
PageHashedTwice ==
    /\ pc = "page"
    /\ ph_hasher = "wide"
    /\ \E i, j \in 1..Len(ph_log) :
          /\ ph_log[i].page = <<3, 0, 0, 0>>
          /\ ph_address = AddressFrom(<<17, 34, 51, 68>>)
          /\ ph_log[i].key = [k \in 1..PageAddrLen |->
                                 CASE k = 1 -> 20 [] k = 2 -> 34 [] k = 3 -> 51
                                   [] k = 4 -> 68 [] OTHER -> 0]
          /\ ph_log[j].page # ph_log[i].page
          /\ ph_log[j].key # ph_log[i].key

\* C29: the hash input built for a page of one account differs from the
\* hash input built for any page of a different account.
PageSpacesDisjoint ==
    pc = "other_page" =>
        \A i \in 1..Len(ph_log) :
            add(ph_address, ph_log[i].page) # add(ph_other.address, ph_other.page)

-----------------------------------------------------------------------------
(* svm-runtime: ExternImport, the bridge between the sandbox and a host    *)
(* function                                                                *)
(*                                                                         *)
(* A wasmer Val is [ty, v] with v a signed integer; a WasmValue is         *)
(* [ty, bits] with bits the big-endian bytes of its u32 or u64; a String   *)
(* is its UTF-8 bytes.                                                     *)

MaxArity == 2        \* longest params, returns and args list

\* "Invalid argument type"
InvalidArgumentType ==
    << 73, 110, 118, 97, 108, 105, 100, 32, 97, 114, 103, 117, 109, 101,
       110, 116, 32, 116, 121, 112, 101 >>

\* "Invalid WASM values"
InvalidWasmValues ==
    << 73, 110, 118, 97, 108, 105, 100, 32, 87, 65, 83, 77, 32, 118, 97,
       108, 117, 101, 115 >>

\* "svm_trap_t (exact error message had an interpretation error."
TrapInterpretationError ==
    << 115, 118, 109, 95, 116, 114, 97, 112, 95, 116, 32, 40, 101, 120, 97,
       99, 116, 32, 101, 114, 114, 111, 114, 32, 109, 101, 115, 115, 97,
       103, 101, 32, 104, 97, 100, 32, 97, 110, 32, 105, 110, 116, 101,
       114, 112, 114, 101, 116, 97, 116, 105, 111, 110, 32, 101, 114, 114,
       111, 114, 46 >>

RuntimeError_new(message) == [message |-> message]

WidthOf(ty) == IF ty = "I32" THEN 4 ELSE 8

\* `v as u32` / `v as u64`: the two's complement of v in n bytes
AsUnsigned(v, n) ==
    IF v >= 0 THEN ToBigEndian(v, n)
    ELSE LET inv == ToBigEndian(-(v + 1), n)
         IN  [i \in 1..n |-> 255 - inv[i]]

\* `v as i32` / `v as i64`
AsSigned(bits) ==
    IF bits[1] < 128 THEN BigEndian(bits)
    ELSE -(BigEndian([i \in 1..Len(bits) |-> 255 - bits[i]])) - 1

WasmValue(ty, bits) == [ty |-> ty, bits |-> bits]
Val(ty, v)          == [ty |-> ty, v |-> v]

\* svm_byte_array from Vec<WasmValue>: the number of values, then each
\* value's type byte and bytes
RECURSIVE WasmValues_bytes(_)
WasmValues_bytes(values) ==
    IF values = <<>> THEN <<>>
    ELSE << IF values[1].ty = "I32" THEN 0 ELSE 1 >> \o values[1].bits
             \o WasmValues_bytes(Tail(values))

WasmValues_into(values) == <<Len(values)>> \o WasmValues_bytes(values)

read_wasm_values_rest(first, rest) ==
    IF rest.tag = "Err" THEN rest ELSE Ok(<<first>> \o rest.val)

RECURSIVE read_wasm_values(_, _)
read_wasm_values(bytes, n) ==
    IF n = 0 THEN Ok(<<>>)
    ELSE IF bytes = <<>> THEN Err("NotEnoughBytes")
    ELSE IF bytes[1] \notin {0, 1} THEN Err("InvalidType")
    ELSE LET ty == IF bytes[1] = 0 THEN "I32" ELSE "I64"
         IN  IF Len(bytes) < 1 + WidthOf(ty) THEN Err("NotEnoughBytes")
             ELSE read_wasm_values_rest(
                      WasmValue(ty, SubSeq(bytes, 2, 1 + WidthOf(ty))),
                      read_wasm_values(SubSeq(bytes, 2 + WidthOf(ty), Len(bytes)), n - 1))

\* Vec::<WasmValue>::try_from(&svm_byte_array)
VecWasmValue_try_from(bytes) ==
    IF bytes = <<>> THEN Err("NotEnoughBytes")
    ELSE read_wasm_values(Tail(bytes), bytes[1])

\* String::from(&svm_trap_t)
String_from_trap(trap) ==
    IF IsValidUTF8(trap.error) THEN trap.error ELSE TrapInterpretationError

to_wasm_values_any_length(results, types) ==
    IF \E i \in 1..Len(results) : i <= Len(types) /\ results[i].ty # types[i]
    THEN NoneOption
    ELSE Some(results)

\* to_wasm_values, once the bytes are decoded
to_wasm_values_checked(results, types) ==
    IF Len(results) # Len(types) THEN NoneOption
    ELSE IF \E i \in 1..Len(results) : results[i].ty # types[i] THEN NoneOption
    ELSE Some(results)

to_wasm_values(bytes, types) ==
    LET results == VecWasmValue_try_from(bytes)
    IN  IF results.tag = "Err" THEN NoneOption
        ELSE to_wasm_values_checked(results.val, types)

RECURSIVE wasmer_vals_to_wasm_vals_from(_, _)
wasmer_vals_to_wasm_vals_from(wasmer_vals, values) ==
    IF wasmer_vals = <<>> THEN Ok(values)
    ELSE LET val == wasmer_vals[1]
         IN  IF val.ty \in {"I32", "I64"}
             THEN wasmer_vals_to_wasm_vals_from(
                      Tail(wasmer_vals),
                      Append(values, WasmValue(val.ty, AsUnsigned(val.v, WidthOf(val.ty)))))
             ELSE Err(RuntimeError_new(InvalidArgumentType))

wasmer_vals_to_wasm_vals(wasmer_vals) ==
    wasmer_vals_to_wasm_vals_from(wasmer_vals, <<>>)

wasm_vals_to_wasmer_vals(vals) ==
    [i \in 1..Len(vals) |-> Val(vals[i].ty, AsSigned(vals[i].bits))]


inner_callback_vals(vals) ==
    IF vals.tag = "Some"
    THEN Ok(wasm_vals_to_wasmer_vals(vals.val))
    ELSE Err(RuntimeError_new(InvalidWasmValues))

inner_callback_called_results_first(returns_types, func) ==
    IF to_wasm_values(func.results, returns_types).tag = "Some"
    THEN inner_callback_vals(to_wasm_values(func.results, returns_types))
    ELSE IF func.trap.tag = "Some"
    THEN Err(RuntimeError_new(String_from_trap(func.trap.val)))
    ELSE Err(RuntimeError_new(InvalidWasmValues))

\* inner_callback, from the return of the host function on
inner_callback_called(returns_types, func) ==
    IF func.trap.tag = "Some"
    THEN Err(RuntimeError_new(String_from_trap(func.trap.val)))
    ELSE inner_callback_vals(to_wasm_values(func.results, returns_types))

NotInvoked == [invoked |-> FALSE, args |-> <<>>, trap |-> NoneOption, results |-> <<>>]

inner_callback_marshalled(returns_types, args, func) ==
    IF args.tag = "Err"
    THEN [r |-> args, host |-> NotInvoked]
    ELSE [r    |-> inner_callback_called(returns_types, func),
          host |-> [invoked |-> TRUE, args |-> WasmValues_into(args.val),
                    trap |-> func.trap, results |-> func.results]]

\* the closure of ExternImport::wasmer_export; `func` is what the host
\* function does when called: the trap it returns and the results it writes
inner_callback(returns_types, args, func) ==
    inner_callback_marshalled(returns_types, wasmer_vals_to_wasm_vals(args), func)

(* the buffers of one inner_callback call                                  *)

HeapOp(op, buffer) == [op |-> op, buffer |-> buffer]

\* what the host function does with the buffers it is handed
host_heap_ops(func) ==
    << HeapOp("read", "args"), HeapOp("write", "results") >>
        \o (IF func.trap.tag = "Some" THEN << HeapOp("alloc", "trap") >> ELSE <<>>)

inner_callback_heap_ops_keeps_results(returns_types, args, func) ==
    IF wasmer_vals_to_wasm_vals(args).tag = "Err" THEN <<>>
    ELSE << HeapOp("alloc", "args"), HeapOp("alloc", "results") >>
         \o host_heap_ops(func)
         \o << HeapOp("release", "args") >>
         \o (IF func.trap.tag = "Some"
             THEN << HeapOp("read", "trap"), HeapOp("release", "results"),
                     HeapOp("release", "trap") >>
             ELSE IF to_wasm_values(func.results, returns_types).tag = "Some"
             THEN << HeapOp("read", "results"), HeapOp("release", "results") >>
             ELSE << HeapOp("read", "results") >>)

\* the statements of inner_callback that allocate, use or release a buffer,
\* in program order: args.into(), alloc_wasm_values, func(..), args.destroy(),
\* then Box::from_raw(trap), (&*trap).into(), results.destroy(),
\* trap.destroy() or to_wasm_values(&results, ..), results.destroy()
inner_callback_heap_ops(returns_types, args, func) ==
    IF wasmer_vals_to_wasm_vals(args).tag = "Err" THEN <<>>
    ELSE << HeapOp("alloc", "args"), HeapOp("alloc", "results") >>
         \o host_heap_ops(func)
         \o << HeapOp("release", "args") >>
         \o (IF func.trap.tag = "Some"
             THEN << HeapOp("read", "trap"), HeapOp("release", "results"),
                     HeapOp("release", "trap") >>
             ELSE << HeapOp("read", "results"), HeapOp("release", "results") >>)

Buffers == {"args", "results", "trap"}

EmptyHeap ==
    [state    |-> [b \in Buffers |-> "none"],
     releases |-> [b \in Buffers |-> 0],
     faults   |-> {}]

\* one operation on the heap: a buffer is none, live or released; using or
\* releasing a buffer that is not live is a fault
heap_apply(heap, o) ==
    CASE o.op = "alloc" ->
             IF heap.state[o.buffer] = "none"
             THEN [heap EXCEPT !.state[o.buffer] = "live"]
             ELSE [heap EXCEPT !.faults = @ \cup {<<"alloc", o.buffer>>}]
      [] o.op \in {"read", "write"} ->
             IF heap.state[o.buffer] = "live" THEN heap
             ELSE [heap EXCEPT !.faults = @ \cup {<<"use", o.buffer>>}]
      [] o.op = "release" ->
             IF heap.state[o.buffer] = "live"
             THEN [heap EXCEPT !.state[o.buffer] = "released", !.releases[o.buffer] = @ + 1]
             ELSE [heap EXCEPT !.faults = @ \cup {<<"release", o.buffer>>},
                               !.releases[o.buffer] = @ + 1]

RECURSIVE heap_run(_, _)
heap_run(heap, ops) ==
    IF ops = <<>> THEN heap ELSE heap_run(heap_apply(heap, Head(ops)), Tail(ops))


(* SpecImport: one import, called once by the sandbox                      *)

WasmTypes == {"I32", "I64"}

ExternImport_new(params, returns) == [params |-> params, returns |-> returns]

ValSamples == { Val("I32", -1), Val("I64", 7), Val("F32", 0) }

WasmValueSamples ==
    { WasmValue("I32", <<255, 255, 255, 255>>),
      WasmValue("I64", <<0, 0, 0, 0, 0, 0, 0, 7>>) }

TrapMessages == { <<111, 111, 112, 115>>, <<255, 254>> }

\* what a host function may leave in `results`: any list of values, or
\* bytes that are no list of values
ResultBuffers ==
    { WasmValues_into(v) : v \in SeqsUpTo(WasmValueSamples, MaxArity) }
        \cup { <<>>, <<1>>, <<1, 0, 0, 0>>, <<1, 9, 0, 0, 0, 0>> }

HostFuncs ==
    [trap : {NoneOption}, results : ResultBuffers]
        \cup [trap    : {Some([error |-> m]) : m \in TrapMessages},
              results : { <<0>>, WasmValues_into(<<WasmValue("I32", <<255, 255, 255, 255>>)>>) }]

InitImport ==
    /\ \E params, returns \in SeqsUpTo(WasmTypes, MaxArity) :
          imp_import = ExternImport_new(params, returns)
    /\ imp_args = <<>>
    /\ imp_host = NotInvoked
    /\ imp_ret = <<>>
    /\ imp_mem = EmptyHeap
    /\ debug = FALSE
    /\ pc = "import"
    /\ IdleNibble
    /\ IdleExtra
    /\ IdleWire
    /\ IdleCodec
    /\ IdlePage
    /\ IdleKV
    /\ IdleApi

CallImport ==
    /\ pc = "import"
    /\ \E args \in SeqsUpTo(ValSamples, MaxArity), func \in HostFuncs :
          LET c == inner_callback(imp_import.returns, args, func)
          IN  /\ imp_args' = args
              /\ imp_host' = c.host
              /\ imp_ret' = c.r
              /\ imp_mem' = heap_run(EmptyHeap,
                                      inner_callback_heap_ops(imp_import.returns, args, func))
    /\ pc' = "returned"
    /\ UNCHANGED <<imp_import, debug,
                   nibbleVars, wireVars, codecVars, extraVars, pageVars, kvVars, apiVars>>

NextImport == CallImport

SpecImport == InitImport /\ [][NextImport]_vars

\* C18: whenever the host function returned a trap, the callback returns an
\* error whose message is the trap's message, or the fixed fallback text when
\* the message is not valid UTF-8, and never result values, whatever the
\* host left in the results buffer.
HostTrapAbortsCall ==
    (pc = "returned" /\ imp_host.invoked /\ imp_host.trap.tag = "Some") =>
        /\ imp_ret.tag = "Err"
        /\ imp_ret.err.message =
               IF IsValidUTF8(imp_host.trap.val.error)
               THEN imp_host.trap.val.error
               ELSE TrapInterpretationError

\* the host returned a trap next to a results buffer that fits the returns
HostTrapWithResults ==
    /\ pc = "returned"
    /\ imp_host.invoked
    /\ imp_host.trap.tag = "Some"
    /\ imp_import.returns = <<"I32">>
    /\ to_wasm_values(imp_host.results, imp_import.returns).tag = "Some"
    /\ imp_ret.tag = "Err"
    /\ imp_ret.err.message = TrapInterpretationError

\* the results buffer holds as many values as the declared returns, of the
\* declared types
FitsReturns(decoded, returns) ==
    /\ decoded.tag = "Ok"
    /\ Len(decoded.val) = Len(returns)
    /\ \A i \in 1..Len(returns) : decoded.val[i].ty = returns[i]

\* C19: when the host function returned no trap, the callback returns
\* Ok(values) exactly when the results buffer decodes to as many values as
\* the declared return types, each of the declared type at its position
\* (the values are then the decoded ones); otherwise it returns the fault
\* "Invalid WASM values".
ReturnLayoutChecked ==
    (pc = "returned" /\ imp_host.invoked /\ imp_host.trap.tag = "None") =>
        IF FitsReturns(VecWasmValue_try_from(imp_host.results), imp_import.returns)
        THEN /\ imp_ret.tag = "Ok"
             /\ Len(imp_ret.val) = Len(imp_import.returns)
             /\ \A i \in 1..Len(imp_ret.val) :
                   /\ imp_ret.val[i].ty = imp_import.returns[i]
                   /\ AsUnsigned(imp_ret.val[i].v, WidthOf(imp_import.returns[i]))
                          = VecWasmValue_try_from(imp_host.results).val[i].bits
        ELSE /\ imp_ret.tag = "Err"
             /\ imp_ret.err.message = InvalidWasmValues

\* two values of the declared types came back
ReturnLayoutAccepted ==
    /\ pc = "returned"
    /\ imp_host.invoked
    /\ imp_host.trap.tag = "None"
    /\ imp_import.returns = <<"I32", "I64">>
    /\ imp_ret.tag = "Ok"
    /\ imp_ret.val = << Val("I32", -1), Val("I64", 7) >>

ArgTypes(args) == [i \in 1..Len(args) |-> args[i].ty]

-----------------------------------------------------------------------------
(* Storage engine: the key-value store with a head state that the runtime  *)
(* is created over (svm_memory_state_kv_create, svm_ffi_state_kv_create).  *)
(*                                                                         *)
(* A State is the 32-byte fingerprint of the page contents; it is held as  *)
(* a digest from which the contents can be read back, so that two states   *)
(* are equal exactly when the contents are.                                *)

MaxValue       == 1  \* page values are 0..MaxValue
MaxCheckpoints == 2  \* checkpoints per behaviour of SpecKV

StateLen == 32

\* the accounts whose pages the store holds, one page each
KvKeys == << Address20(161), Address20(162) >>

KeySet == {KvKeys[i] : i \in 1..Len(KvKeys)}

Values == 0..MaxValue

\* no page written yet: every key is absent
EmptyContents == [k \in KeySet |-> None]

\* the fingerprint of the page contents
State_of(contents) ==
    [i \in 1..StateLen |-> IF i <= Len(KvKeys) THEN contents[KvKeys[i]] + 1 ELSE 0]

\* the page contents a fingerprint stands for
ContentsOf(state) ==
    [k \in KeySet |-> state[CHOOSE i \in 1..Len(KvKeys) : KvKeys[i] = k] - 1]

\* `head: None`, no state yet
NoHead == <<>>

\* ExternKV { get_fn, set_fn, discard_fn, checkpoint_fn, head: None }
ExternKV_new ==
    [committed |-> {}, head |-> NoHead, pending |-> EmptyContents]

HeadContents(store) ==
    IF store.head = NoHead THEN EmptyContents ELSE ContentsOf(store.head)

\* read(key) -> bytes_or_absent
kv_get(store, key) ==
    IF store.pending[key] # None THEN store.pending[key]
    ELSE HeadContents(store)[key]

\* write(key, bytes): buffers an uncommitted mutation
kv_set(store, key, value) ==
    [store EXCEPT !.pending[key] = value]

kv_discard_keeps_writes(store) == store

\* discard(): drops all buffered writes since the last checkpoint
kv_discard(store) ==
    [store EXCEPT !.pending = EmptyContents]

kv_checkpoint_to(store, state) ==
    [committed |-> store.committed \cup {state},
     head      |-> state,
     pending   |-> EmptyContents]

kv_checkpoint_drops_writes(store) ==
    kv_checkpoint_to(store, State_of(HeadContents(store)))

\* checkpoint() -> new_state_fingerprint: makes the buffered writes visible
\* and derives the new head from the resulting contents
kv_checkpoint(store) ==
    kv_checkpoint_to(store, State_of([k \in KeySet |-> kv_get(store, k)]))

\* rewind(state): continue from a given head
kv_rewind(store, state) ==
    [store EXCEPT !.head = state]

(* SpecKV: writes, reads, checkpoints and discards in any order           *)

InitKV ==
    /\ kv = ExternKV_new
    /\ kv_ref = [base |-> EmptyContents, writes |-> EmptyContents, checkpoints |-> 0,
                 last |-> "new", prev |-> "new", key |-> KvKeys[1], value |-> None]
    /\ debug = FALSE
    /\ pc = "kv"
    /\ IdleNibble
    /\ IdleExtra
    /\ IdleWire
    /\ IdleCodec
    /\ IdlePage
    /\ IdleImport
    /\ IdleApi

KvIdle == UNCHANGED <<debug, pc, nibbleVars, wireVars, codecVars, extraVars, pageVars, importVars, apiVars>>

KvDone(op, key, value) ==
    [kv_ref EXCEPT !.last = op, !.prev = kv_ref.last, !.key = key, !.value = value]

KvWrite ==
    /\ pc = "kv"
    /\ \E key \in KeySet, value \in Values :
          /\ kv' = kv_set(kv, key, value)
          /\ kv_ref' = [KvDone("write", key, value) EXCEPT !.writes[key] = value]
    /\ KvIdle

KvRead ==
    /\ pc = "kv"
    /\ \E key \in KeySet :
          kv_ref' = KvDone("read", key, kv_get(kv, key))
    /\ UNCHANGED kv
    /\ KvIdle

KvCheckpoint ==
    /\ pc = "kv"
    /\ kv_ref.checkpoints < MaxCheckpoints
    /\ kv' = kv_checkpoint(kv)
    /\ kv_ref' = [KvDone("checkpoint", kv_ref.key, None) EXCEPT
                     !.base = [k \in KeySet |-> IF kv_ref.writes[k] # None
                                                THEN kv_ref.writes[k]
                                                ELSE kv_ref.base[k]],
                     !.writes = EmptyContents,
                     !.checkpoints = @ + 1]
    /\ KvIdle

KvDiscard ==
    /\ pc = "kv"
    /\ kv' = kv_discard(kv)
    /\ kv_ref' = [KvDone("discard", kv_ref.key, None) EXCEPT !.writes = EmptyContents]
    /\ KvIdle

NextKV == KvWrite \/ KvRead \/ KvCheckpoint \/ KvDiscard

SpecKV == InitKV /\ [][NextKV]_vars

\* C12: right after checkpoint() every key reads as its last write since
\* the checkpoint before, or as before when it was not written; right after
\* discard() every key reads as it did at the last checkpoint; and a read
\* that follows a discard() returns the value of the last checkpoint.
CheckpointDiscardIsolation ==
    pc = "kv" =>
        /\ kv_ref.last \in {"checkpoint", "discard"} =>
               \A k \in KeySet : kv_get(kv, k) = kv_ref.base[k]
        /\ (kv_ref.last = "read" /\ kv_ref.prev \in {"checkpoint", "discard"}) =>
               kv_ref.value = kv_ref.base[kv_ref.key]
        /\ kv_ref.last = "checkpoint" => kv.head = State_of(kv_ref.base)

\* a key was written, committed, written again and the second write
\* discarded: the read after the discard returns the first value
ReadAfterDiscard ==
    /\ pc = "kv"
    /\ kv_ref.last = "read"
    /\ kv_ref.prev = "discard"
    /\ kv_ref.checkpoints = 1
    /\ kv_ref.value = 1
    /\ kv_ref.base = [k \in KeySet |-> IF k = kv_ref.key THEN 1 ELSE 0]

-----------------------------------------------------------------------------
(* The runtime behind the C API: deploy_template, spawn_app and exec_app   *)
(* over the storage engine, the sandbox running the functions of the       *)
(* counter template of api_tests.rs.                                       *)
(*                                                                         *)
(* Raw transactions are held decoded: [kind, addr, name, data], kind       *)
(* "garbage" for bytes that decode to no transaction.                      *)

RawTx(kind, addr, name, data) ==
    [kind |-> kind, addr |-> addr, name |-> name, data |-> data]

Garbage == RawTx("garbage", <<>>, "", 0)

\* Address::try_from(svm_byte_array) / State::try_from(svm_byte_array)
Address_try_from(bytes) ==
    IF Len(bytes) = AddressLen THEN Ok(bytes) ELSE Err("InvalidAddress")

State_try_from(bytes) ==
    IF Len(bytes) = StateLen THEN Ok(bytes) ELSE Err("InvalidState")

\* State::zeros(): the state of an empty page space
State_zeros == State_of(EmptyContents)

\* the address of a deployed template
TemplateAddr == Address20(177)

\* the address of the app a creator spawns from a template
AppAddr == KvKeys[1]

\* the error messages of failed receipts, as UTF-8
ParseFailed      == <<112, 97, 114, 115, 101>>
TemplateNotFound == <<110, 111, 32, 116, 101, 109, 112, 108, 97, 116, 101>>
AppNotFound      == <<110, 111, 32, 97, 112, 112>>
FuncNotFound     == <<110, 111, 32, 102, 117, 110, 99>>
OutOfGas         == <<111, 111, 103>>

Receipt(success, addr, state, returns, error, gas_used) ==
    [success |-> success, addr |-> addr, state |-> state,
     returns |-> returns, error |-> error, gas_used |-> gas_used]

Failed(error) == Receipt(FALSE, <<>>, <<>>, <<>>, error, 0)

\* raw::encode_*_receipt: the success flag, then the outputs or the error
encode_receipt(receipt) ==
    IF receipt.success
    THEN <<1>> \o receipt.addr \o receipt.state \o receipt.returns
    ELSE <<0>> \o receipt.error

\* raw::decode_receipt(bytes).into_deploy_template()
decode_template_receipt(bytes) ==
    IF bytes[1] = 1
    THEN Receipt(TRUE, SubSeq(bytes, 2, 1 + AddressLen), <<>>, <<>>, <<>>, 0)
    ELSE Failed(Tail(bytes))

\* raw::decode_receipt(bytes).into_spawn_app()
decode_spawn_receipt(bytes) ==
    IF bytes[1] = 1
    THEN Receipt(TRUE, SubSeq(bytes, 2, 1 + AddressLen),
                 SubSeq(bytes, 2 + AddressLen, 1 + AddressLen + StateLen), <<>>, <<>>, 0)
    ELSE Failed(Tail(bytes))

\* raw::decode_receipt(bytes).into_exec_app()
decode_exec_receipt(bytes) ==
    IF bytes[1] = 1
    THEN Receipt(TRUE, <<>>, SubSeq(bytes, 2, 1 + StateLen),
                 SubSeq(bytes, 2 + StateLen, Len(bytes)), <<>>, 0)
    ELSE Failed(Tail(bytes))

\* MaybeGas::with(limit) is Some(limit), MaybeGas::new() is NoneOption
ExceedsGas(gas, used) == gas.tag = "Some" /\ used > gas.val

(* the host function behind the import host::counter_mul                   *)

HostKinds == {"counter_mul", "traps", "returns_i64"}

Wrap(v) == v % (MaxValue + 1)

\* what the host function answers to the arguments (old, mul)
HostFunc(kind, old, mul) ==
    CASE kind = "counter_mul" ->
             [trap    |-> NoneOption,
              results |-> WasmValues_into(<<WasmValue("I32", AsUnsigned(Wrap(old * mul), 4))>>)]
      [] kind = "traps" ->
             [trap    |-> Some([error |-> <<111, 111, 112, 115>>]),
              results |-> <<0>>]
      [] kind = "returns_i64" ->
             [trap    |-> NoneOption,
              results |-> WasmValues_into(<<WasmValue("I64", AsUnsigned(Wrap(old * mul), 8))>>)]

(* the sandbox: the functions of the counter template                      *)

Counter(store, key) == IF kv_get(store, key) = None THEN 0 ELSE kv_get(store, key)

Ran(store, r, gas_used) == [store |-> store, r |-> r, gas_used |-> gas_used]

\* add_and_mul, after the host import has returned
run_add_and_mul_called(store, key, called) ==
    IF called.tag = "Ok"
    THEN Ran(kv_set(store, key, called.val[1].v), Ok(<<called.val[1].v>>), 2)
    ELSE Ran(store, Err(called.err.message), 2)

\* the function `name` of the template, called with `data` on the pages of `key`
run_func(store, key, name, data, host) ==
    CASE name = "initialize" ->
             Ran(kv_set(store, key, data), Ok(<<>>), 1)
      [] name = "add" ->
             Ran(kv_set(store, key, Wrap(Counter(store, key) + data)),
                 Ok(<<Wrap(Counter(store, key) + data)>>), 1)
      [] name = "add_and_mul" ->
             run_add_and_mul_called(
                 kv_set(store, key, Wrap(Counter(store, key) + data)), key,
                 inner_callback(<<"I32">>,
                                << Val("I32", Wrap(Counter(store, key) + data)), Val("I32", 2) >>,
                                HostFunc(host, Wrap(Counter(store, key) + data), 2)).r)
      [] OTHER ->
             Ran(store, Err(FuncNotFound), 0)


(* the runtime's operations; each returns the runtime, the store and the   *)
(* receipt                                                                 *)

Outcome(rt, store, receipt) == [runtime |-> rt, store |-> store, receipt |-> receipt]

\* svm_runtime::testing::create_memory_runtime(state_kv, imports)
create_memory_runtime(host) == [templates |-> {}, apps |-> {}, host |-> host]

\* Runtime::validate_template / validate_app / validate_tx: decode only
validate_template(bytes) ==
    IF bytes.kind = "template" THEN Ok(<<>>) ELSE Err("ParseError")

validate_app(bytes) ==
    IF bytes.kind = "spawn" THEN Ok(<<>>) ELSE Err("ParseError")

validate_tx(bytes) ==
    IF bytes.kind = "exec" THEN Ok(bytes.addr) ELSE Err("ParseError")

\* Runtime::deploy_template(bytes, author, gas)
deploy_template(rt, store, bytes, author, gas) ==
    IF bytes.kind # "template" THEN Outcome(rt, store, Failed(ParseFailed))
    ELSE IF ExceedsGas(gas, 1) THEN Outcome(rt, store, Failed(OutOfGas))
    ELSE Outcome([rt EXCEPT !.templates = @ \cup {TemplateAddr}], store,
                 Receipt(TRUE, TemplateAddr, <<>>, <<>>, <<>>, 1))

sandbox_keeps_writes(rt, ran, gas, app) ==
    Outcome([rt EXCEPT !.apps = @ \cup app], kv_checkpoint(ran.store),
            IF ran.r.tag = "Err" THEN Failed(ran.r.err)
            ELSE IF ExceedsGas(gas, ran.gas_used) THEN Failed(OutOfGas)
            ELSE Receipt(TRUE, <<>>, kv_checkpoint(ran.store).head, ran.r.val, <<>>,
                         ran.gas_used))

\* the end of a sandbox run: commit on success, discard on a fault
sandbox_done(rt, ran, gas, app) ==
    IF ran.r.tag = "Err"
    THEN Outcome(rt, kv_discard(ran.store), Failed(ran.r.err))
    ELSE IF ExceedsGas(gas, ran.gas_used)
    THEN Outcome(rt, kv_discard(ran.store), Failed(OutOfGas))
    ELSE Outcome([rt EXCEPT !.apps = @ \cup app], kv_checkpoint(ran.store),
                 Receipt(TRUE, <<>>, kv_checkpoint(ran.store).head, ran.r.val, <<>>,
                         ran.gas_used))

WithAddr(o, addr) ==
    IF o.receipt.success THEN [o EXCEPT !.receipt.addr = addr, !.receipt.returns = <<>>]
    ELSE o

\* Runtime::spawn_app(bytes, creator, gas)
spawn_app(rt, store, bytes, creator, gas) ==
    IF bytes.kind # "spawn" THEN Outcome(rt, store, Failed(ParseFailed))
    ELSE IF bytes.addr \notin rt.templates THEN Outcome(rt, store, Failed(TemplateNotFound))
    ELSE WithAddr(sandbox_done(rt,
                               run_func(kv_rewind(store, State_zeros), AppAddr,
                                        bytes.name, bytes.data, rt.host),
                               gas, {AppAddr}),
                  AppAddr)

exec_app_at_head(rt, store, bytes, state, gas) ==
    IF bytes.kind # "exec" THEN Outcome(rt, store, Failed(ParseFailed))
    ELSE IF bytes.addr \notin rt.apps THEN Outcome(rt, store, Failed(AppNotFound))
    ELSE sandbox_done(rt,
                      run_func(store, bytes.addr, bytes.name, bytes.data, rt.host),
                      gas, {})

\* Runtime::exec_app(bytes, state, gas)
exec_app(rt, store, bytes, state, gas) ==
    IF bytes.kind # "exec" THEN Outcome(rt, store, Failed(ParseFailed))
    ELSE IF bytes.addr \notin rt.apps THEN Outcome(rt, store, Failed(AppNotFound))
    ELSE sandbox_done(rt,
                      run_func(kv_rewind(store, state), bytes.addr,
                               bytes.name, bytes.data, rt.host),
                      gas, {})

-----------------------------------------------------------------------------
(* svm-runtime-c-api: api.rs                                               *)

maybe_gas_always_with(gas_metering, gas_limit) == Some(gas_limit)

\* maybe_gas!(gas_metering, gas_limit)
maybe_gas(gas_metering, gas_limit) ==
    IF gas_metering THEN Some(gas_limit) ELSE NoneOption

\* what a call leaves behind: the result code, the receipt and error
\* output arguments (<<>> and "" when not written), the runtime and its
\* store, and whether the runtime's operation was called
ApiRet(code, receipt, error, o, called) ==
    [code |-> code, receipt |-> receipt, error |-> error,
     runtime |-> o.runtime, store |-> o.store, called |-> called]

\* the calls, from the runtime's return on
api_receipt_fails_on_failure(o) ==
    ApiRet(IF o.receipt.success THEN "SVM_SUCCESS" ELSE "SVM_FAILURE",
           encode_receipt(o.receipt), "", o, TRUE)

api_receipt(o) ==
    ApiRet("SVM_SUCCESS", encode_receipt(o.receipt), "", o, TRUE)

api_raw_error(rt, store, e) ==
    ApiRet("SVM_FAILURE", <<>>, e, Outcome(rt, store, <<>>), FALSE)

svm_deploy_template_unchecked(rt, store, bytes, author, gas_metering, gas_limit) ==
    api_receipt(deploy_template(rt, store, bytes, author,
                                maybe_gas(gas_metering, gas_limit)))

svm_deploy_template(rt, store, bytes, author, gas_metering, gas_limit) ==
    IF Address_try_from(author).tag = "Err"
    THEN api_raw_error(rt, store, Address_try_from(author).err)
    ELSE api_receipt(deploy_template(rt, store, bytes, Address_try_from(author).val,
                                     maybe_gas(gas_metering, gas_limit)))

svm_spawn_app(rt, store, bytes, creator, gas_metering, gas_limit) ==
    IF Address_try_from(creator).tag = "Err"
    THEN api_raw_error(rt, store, Address_try_from(creator).err)
    ELSE api_receipt(spawn_app(rt, store, bytes, Address_try_from(creator).val,
                               maybe_gas(gas_metering, gas_limit)))

svm_exec_app(rt, store, bytes, state, gas_metering, gas_limit) ==
    IF State_try_from(state).tag = "Err"
    THEN api_raw_error(rt, store, State_try_from(state).err)
    ELSE api_receipt(exec_app(rt, store, bytes, State_try_from(state).val,
                              maybe_gas(gas_metering, gas_limit)))


(* gas estimation                                                          *)

\* svm_gas::Gas
Fixed(gas) == [tag |-> "Fixed", gas |-> gas]

Range(min, max) == [tag |-> "Range", min |-> min, max |-> max]

\* Runtime::estimate_deploy_template / estimate_spawn_app / estimate_exec_app:
\* a static pass over the decoded transaction, the decode error otherwise
estimate_deploy_template(bytes) ==
    IF bytes.kind = "template" THEN Ok(Fixed(1)) ELSE Err("ParseError")

estimate_spawn_app(bytes) ==
    IF bytes.kind # "spawn" THEN Err("ParseError")
    ELSE IF bytes.name = "initialize" THEN Ok(Fixed(1))
    ELSE Ok(Range(0, 1))

estimate_exec_app(bytes) ==
    IF bytes.kind # "exec" THEN Err("ParseError")
    ELSE IF bytes.name = "add" THEN Ok(Fixed(1))
    ELSE Ok(Range(1, 2))

max_gas_takes_min(estimation) ==
    CASE estimation.tag = "Fixed" -> estimation.gas
      [] estimation.tag = "Range" -> estimation.min

\* max_gas!(estimation)
max_gas(estimation) ==
    CASE estimation.tag = "Fixed" -> estimation.gas
      [] estimation.tag = "Range" -> estimation.max

\* the match on the runtime's answer: `estimation` is what the caller's u64
\* holds before the call, the field `estimation` what it holds after
api_estimate(est, estimation) ==
    IF est.tag = "Ok"
    THEN [code |-> "SVM_SUCCESS", estimation |-> max_gas(est.val), error |-> ""]
    ELSE [code |-> "SVM_FAILURE", estimation |-> estimation, error |-> est.err]

svm_estimate_deploy_template(estimation, rt, bytes) ==
    api_estimate(estimate_deploy_template(bytes), estimation)

svm_estimate_spawn_app(estimation, rt, bytes) ==
    api_estimate(estimate_spawn_app(bytes), estimation)

svm_estimate_exec_app(estimation, rt, bytes) ==
    api_estimate(estimate_exec_app(bytes), estimation)


(* SpecApi: a host calling svm_deploy_template, svm_spawn_app and          *)
(* svm_exec_app on an in-memory runtime, in any order, with any arguments  *)

TemplateBytes == { RawTx("template", <<>>, "counter", 0), Garbage }

SpawnBytes ==
    { RawTx("spawn", TemplateAddr, "initialize", d) : d \in Values }
        \cup { RawTx("spawn", TemplateAddr, "nope", 0), Garbage }

ExecBytes ==
    { RawTx("exec", AppAddr, f, 1) : f \in {"add", "add_and_mul", "nope"} }
        \cup { Garbage }

\* Address::of("author") and a byte array that is no address
AuthorArgs == { Address20(17), <<1, 2, 3>> }

\* the states the host may know of, and a byte array that is no state
StateArgs == kv.committed \cup { State_zeros, <<0>> }

\* gas_metering and gas_limit
GasArgs == { <<FALSE, 0>>, <<TRUE, 1>> }

Called(fn, bytes, arg, gas, r) ==
    [fn |-> fn, bytes |-> bytes, arg |-> arg,
     gas_metering |-> gas[1], gas_limit |-> gas[2],
     code |-> r.code, receipt |-> r.receipt, error |-> r.error, called |-> r.called,
     before |-> [runtime |-> runtime, committed |-> kv.committed]]

InitApi ==
    /\ \E host \in HostKinds : runtime = create_memory_runtime(host)
    /\ kv = ExternKV_new
    /\ api_ret = [fn |-> "svm_memory_runtime_create", bytes |-> Garbage, arg |-> <<>>,
                  gas_metering |-> FALSE, gas_limit |-> 0,
                  code |-> "SVM_SUCCESS", receipt |-> <<>>, error |-> "", called |-> FALSE,
                  before |-> [runtime |-> <<>>, committed |-> {}]]
    /\ api_log = <<>>
    /\ kv_ref = <<>>
    /\ debug = FALSE
    /\ pc = "api"
    /\ IdleNibble
    /\ IdleExtra
    /\ IdleWire
    /\ IdleCodec
    /\ IdlePage
    /\ IdleImport

ApiIdle == UNCHANGED <<kv_ref, debug, nibbleVars, wireVars, codecVars, extraVars, pageVars, importVars>>

Returned(fn, bytes, arg, gas, r) ==
    /\ api_ret' = Called(fn, bytes, arg, gas, r)
    /\ runtime' = r.runtime
    /\ kv' = r.store

SvmDeployTemplate ==
    /\ pc = "api"
    /\ \E bytes \in TemplateBytes, author \in AuthorArgs, gas \in GasArgs :
          Returned("svm_deploy_template", bytes, author, gas,
                   svm_deploy_template(runtime, kv, bytes, author, gas[1], gas[2]))
    /\ UNCHANGED <<api_log, pc>>
    /\ ApiIdle

SvmSpawnApp ==
    /\ pc = "api"
    /\ \E bytes \in SpawnBytes, creator \in AuthorArgs, gas \in GasArgs :
          Returned("svm_spawn_app", bytes, creator, gas,
                   svm_spawn_app(runtime, kv, bytes, creator, gas[1], gas[2]))
    /\ UNCHANGED <<api_log, pc>>
    /\ ApiIdle

SvmExecApp ==
    /\ pc = "api"
    /\ \E bytes \in ExecBytes, state \in StateArgs, gas \in GasArgs :
          Returned("svm_exec_app", bytes, state, gas,
                   svm_exec_app(runtime, kv, bytes, state, gas[1], gas[2]))
    /\ UNCHANGED <<api_log, pc>>
    /\ ApiIdle

\* what the caller's `estimation: u64` may hold before the call
EstimationSlots == {0, 9}

Estimated(fn, bytes, estimation, r) ==
    /\ api_ret' = [fn |-> fn, bytes |-> bytes, arg |-> <<>>,
                   gas_metering |-> FALSE, gas_limit |-> 0,
                   code |-> r.code, receipt |-> <<>>, error |-> r.error, called |-> FALSE,
                   before |-> [runtime |-> runtime, committed |-> kv.committed],
                   slot |-> estimation, estimation |-> r.estimation]
    /\ UNCHANGED <<runtime, kv, api_log, pc>>
    /\ ApiIdle

SvmEstimateDeployTemplate ==
    /\ pc = "api"
    /\ \E bytes \in TemplateBytes, estimation \in EstimationSlots :
          Estimated("svm_estimate_deploy_template", bytes, estimation,
                    svm_estimate_deploy_template(estimation, runtime, bytes))

SvmEstimateSpawnApp ==
    /\ pc = "api"
    /\ \E bytes \in SpawnBytes, estimation \in EstimationSlots :
          Estimated("svm_estimate_spawn_app", bytes, estimation,
                    svm_estimate_spawn_app(estimation, runtime, bytes))

SvmEstimateExecApp ==
    /\ pc = "api"
    /\ \E bytes \in ExecBytes, estimation \in EstimationSlots :
          Estimated("svm_estimate_exec_app", bytes, estimation,
                    svm_estimate_exec_app(estimation, runtime, bytes))


NextApi ==
    \/ SvmDeployTemplate \/ SvmSpawnApp \/ SvmExecApp
    \/ SvmEstimateDeployTemplate \/ SvmEstimateSpawnApp \/ SvmEstimateExecApp

SpecApi == InitApi /\ [][NextApi]_vars

Executes == {"svm_deploy_template", "svm_spawn_app", "svm_exec_app"}

\* the last call ran the sandbox and its receipt says failed
SandboxFailed ==
    /\ pc = "api"
    /\ api_ret.fn \in {"svm_spawn_app", "svm_exec_app"}
    /\ api_ret.called
    /\ api_ret.receipt[1] = 0

ResultCodeIgnoresOutcome ==
    (pc = "api" /\ api_ret.fn \in Executes
         /\ Len(api_ret.arg) = (IF api_ret.fn = "svm_exec_app" THEN StateLen ELSE AddressLen)) =>
        /\ api_ret.code = "SVM_SUCCESS"
        /\ api_ret.called
        /\ api_ret.receipt # <<>>
        /\ api_ret.receipt[1] \in {0, 1}

\* SVM_SUCCESS next to a receipt that says failed
SuccessCodeFailedReceipt ==
    /\ pc = "api"
    /\ api_ret.fn \in Executes
    /\ api_ret.code = "SVM_SUCCESS"
    /\ api_ret.receipt # <<>>
    /\ api_ret.receipt[1] = 0



Estimates == {"svm_estimate_deploy_template", "svm_estimate_spawn_app",
              "svm_estimate_exec_app"}

\* the runtime's estimate of the transaction of the last call
EstimateOf(fn, bytes) ==
    CASE fn = "svm_estimate_deploy_template" -> estimate_deploy_template(bytes)
      [] fn = "svm_estimate_spawn_app"       -> estimate_spawn_app(bytes)
      [] fn = "svm_estimate_exec_app"        -> estimate_exec_app(bytes)

RuntimeCall(fn, rt, bytes, arg, gas) ==
    CASE fn = "svm_deploy_template" -> deploy_template(rt, ExternKV_new, bytes, arg, gas)
      [] fn = "svm_spawn_app"       -> spawn_app(rt, ExternKV_new, bytes, arg, gas)
      [] fn = "svm_exec_app"        -> exec_app(rt, ExternKV_new, bytes, arg, gas)

\* C22: the receipt of svm_deploy_template, svm_spawn_app or svm_exec_app is
\* the receipt the runtime gives under the limit gas_limit when gas_metering
\* is true and under no limit when gas_metering is false; a call with
\* gas_metering false is never failed for exceeding its gas bound, whatever
\* gas_limit is.
GasBoundPassedToEngine ==
    (pc = "api" /\ api_ret.fn \in Executes /\ api_ret.called) =>
        /\ api_ret.receipt =
               encode_receipt(
                   RuntimeCall(api_ret.fn, api_ret.before.runtime, api_ret.bytes, api_ret.arg,
                               IF api_ret.gas_metering THEN Some(api_ret.gas_limit)
                               ELSE NoneOption).receipt)
        /\ ~api_ret.gas_metering => api_ret.receipt # encode_receipt(Failed(OutOfGas))

\* add_and_mul, which uses two units of gas, succeeds with gas_metering
\* false and gas_limit 0
UnmeteredZeroLimitRuns ==
    /\ pc = "api"
    /\ api_ret.fn = "svm_exec_app"
    /\ api_ret.called
    /\ ~api_ret.gas_metering
    /\ api_ret.gas_limit = 0
    /\ api_ret.bytes.name = "add_and_mul"
    /\ decode_exec_receipt(api_ret.receipt).success


\* the author, creator or state argument of the call is no Address / State
MalformedArg(r) ==
    /\ r.fn \in Executes
    /\ Len(r.arg) # (IF r.fn = "svm_exec_app" THEN StateLen ELSE AddressLen)

\* C26: a call of svm_deploy_template, svm_spawn_app or svm_exec_app whose
\* author, creator or state byte array is not a well-formed Address / State
\* returns SVM_FAILURE with an error message, does not call the runtime,
\* writes no receipt and leaves the runtime and the storage as they were.
MalformedArgsNeverReachEngine ==
    [][ MalformedArg(api_ret') =>
            /\ api_ret'.code = "SVM_FAILURE"
            /\ api_ret'.error # ""
            /\ ~api_ret'.called
            /\ api_ret'.receipt = <<>>
            /\ runtime' = runtime
            /\ kv' = kv ]_vars

\* svm_exec_app called with a one-byte state on a runtime that has an app
\* and committed states
MalformedStateRejected ==
    /\ pc = "api"
    /\ api_ret.fn = "svm_exec_app"
    /\ api_ret.arg = <<0>>
    /\ api_ret.bytes.kind = "exec"
    /\ api_ret.code = "SVM_FAILURE"
    /\ runtime.apps # {}
    /\ kv.committed # {}

svm_validate_tx_rejects(rt, bytes) ==
    [code |-> "SVM_FAILURE", app_addr |-> <<>>, error |-> "ParseError"]

\* svm_validate_tx(app_addr, runtime, bytes, error)
svm_validate_tx(rt, bytes) ==
    IF validate_tx(bytes).tag = "Ok"
    THEN [code |-> "SVM_SUCCESS", app_addr |-> validate_tx(bytes).val, error |-> ""]
    ELSE [code |-> "SVM_FAILURE", app_addr |-> <<>>, error |-> validate_tx(bytes).err]

(* SpecTest: test_svm_runtime of api_tests.rs, step by step; the counter's *)
(* initial value, the amount added, the author and the (unmetered) gas     *)
(* limit vary                                                              *)

TestCases ==
    [counter_init : Values, add : Values, gas_limit : {0, 1, 9},
     author : {Address20(17), Address20(18)}]

InitTest ==
    /\ \E c \in TestCases : api_log = [case |-> c, calls |-> <<>>]
    /\ runtime = <<>>
    /\ kv = <<>>
    /\ api_ret = <<>>
    /\ kv_ref = <<>>
    /\ debug = FALSE
    /\ pc = "test_1"
    /\ IdleNibble
    /\ IdleExtra
    /\ IdleWire
    /\ IdleCodec
    /\ IdlePage
    /\ IdleImport

TestIdle == UNCHANGED <<api_ret, kv_ref, debug,
                        nibbleVars, wireVars, codecVars, extraVars, pageVars, importVars>>

Logged(fn, bytes, code, output) ==
    api_log' = [api_log EXCEPT !.calls =
                   Append(@, [fn |-> fn, bytes |-> bytes, code |-> code, output |-> output])]

\* assert!(..): the test goes on only when the assertion holds
Asserted(holds, then) ==
    pc' = IF holds THEN then ELSE "assert_failed"

\* 1) init runtime
TestCreateRuntime ==
    /\ pc = "test_1"
    /\ kv' = ExternKV_new
    /\ runtime' = create_memory_runtime("counter_mul")
    /\ pc' = "test_2"
    /\ UNCHANGED api_log
    /\ TestIdle

\* 2) deploy app-template
TestDeployTemplate ==
    /\ pc = "test_2"
    /\ LET bytes == RawTx("template", <<>>, "counter", 0)
           res   == svm_deploy_template(runtime, kv, bytes, api_log.case.author,
                                        FALSE, api_log.case.gas_limit)
       IN  /\ runtime' = res.runtime
           /\ kv' = res.store
           /\ Logged("svm_deploy_template", bytes, res.code, res.receipt)
           /\ Asserted(res.code = "SVM_SUCCESS", "test_3")
    /\ TestIdle

\* 3) spawn app
TestSpawnApp ==
    /\ pc = "test_3"
    /\ LET template_addr == decode_template_receipt(api_log.calls[1].output).addr
           bytes == RawTx("spawn", template_addr, "initialize", api_log.case.counter_init)
           res   == svm_spawn_app(runtime, kv, bytes, Address20(19),
                                  FALSE, api_log.case.gas_limit)
       IN  /\ runtime' = res.runtime
           /\ kv' = res.store
           /\ Logged("svm_spawn_app", bytes, res.code, res.receipt)
           /\ Asserted(res.code = "SVM_SUCCESS" /\ decode_spawn_receipt(res.receipt).success,
                       "test_4_1")
    /\ TestIdle

\* the transaction of step 4
TestTx ==
    RawTx("exec", decode_spawn_receipt(api_log.calls[2].output).addr,
          "add_and_mul", api_log.case.add)

\* 4.1) validates tx and extracts its app's address
TestValidateTx ==
    /\ pc = "test_4_1"
    /\ LET res == svm_validate_tx(runtime, TestTx)
       IN  /\ Logged("svm_validate_tx", TestTx, res.code, res.app_addr)
           /\ Asserted(res.code = "SVM_SUCCESS", "test_4_2")
    /\ UNCHANGED <<runtime, kv>>
    /\ TestIdle

\* 4.2) execute the app-transaction
TestExecApp ==
    /\ pc = "test_4_2"
    /\ LET init_state == decode_spawn_receipt(api_log.calls[2].output).state
           res == svm_exec_app(runtime, kv, TestTx, init_state,
                               FALSE, api_log.case.gas_limit)
       IN  /\ runtime' = res.runtime
           /\ kv' = res.store
           /\ Logged("svm_exec_app", TestTx, res.code, res.receipt)
           /\ Asserted(res.code = "SVM_SUCCESS" /\ decode_exec_receipt(res.receipt).success,
                       "test_done")
    /\ TestIdle

NextTest ==
    \/ TestCreateRuntime
    \/ TestDeployTemplate
    \/ TestSpawnApp
    \/ TestValidateTx
    \/ TestExecApp

SpecTest == InitTest /\ [][NextTest]_vars

TestPcs == {"test_1", "test_2", "test_3", "test_4_1", "test_4_2", "test_done", "assert_failed"}

TestOrder == <<"svm_deploy_template", "svm_spawn_app", "svm_validate_tx", "svm_exec_app">>

\* C15: deploy_template, spawn_app and exec_app run only on bytes that an
\* earlier call validated and a later, still earlier call gas-estimated.
ExecutedOnlyAfterValidatedAndEstimated ==
    pc \in TestPcs =>
        \A i \in 1..Len(api_log.calls) :
            api_log.calls[i].fn \in Executes =>
                \E j, k \in 1..Len(api_log.calls) :
                    /\ j < k /\ k < i
                    /\ api_log.calls[j].bytes = api_log.calls[i].bytes
                    /\ api_log.calls[k].bytes = api_log.calls[i].bytes
                    /\ api_log.calls[j].fn \in {"svm_validate_template", "svm_validate_app",
                                                "svm_validate_tx"}
                    /\ api_log.calls[k].fn \in {"svm_estimate_deploy_template",
                                                "svm_estimate_spawn_app",
                                                "svm_estimate_exec_app"}

\* C17: on a fresh in-memory runtime no assertion of the test fails: the
\* deploy, the spawn from the deploy receipt's template address, the
\* validation and the execution against the spawn receipt's initial state
\* return SVM_SUCCESS in this order, the spawn receipt is successful with an
\* app address and an initial state, and the exec receipt is successful.
EndToEndSucceeds ==
    pc \in TestPcs =>
        /\ pc # "assert_failed"
        /\ \A i \in 1..Len(api_log.calls) :
              /\ api_log.calls[i].fn = TestOrder[i]
              /\ api_log.calls[i].code = "SVM_SUCCESS"
        /\ Len(api_log.calls) >= 2 =>
              /\ decode_spawn_receipt(api_log.calls[2].output).success
              /\ decode_spawn_receipt(api_log.calls[2].output).addr \in runtime.apps
              /\ decode_spawn_receipt(api_log.calls[2].output).state \in kv.committed
              /\ api_log.calls[2].bytes.addr \in runtime.templates
        /\ Len(api_log.calls) >= 3 =>
              api_log.calls[3].output = decode_spawn_receipt(api_log.calls[2].output).addr
        /\ pc = "test_done" =>
              /\ Len(api_log.calls) = 4
              /\ decode_exec_receipt(api_log.calls[4].output).success

\* the test ran to its end, the exec receipt carries a new state
TestRanToEnd ==
    /\ pc = "test_done"
    /\ Len(api_log.calls) = 4
    /\ api_log.case.counter_init = 1
    /\ decode_exec_receipt(api_log.calls[4].output).success
    /\ decode_exec_receipt(api_log.calls[4].output).state = kv.head

-----------------------------------------------------------------------------
(* svm-sdk macros: function.rs, the attributes of a function               *)
(*                                                                         *)
(* A function is [attrs, sig]: its attributes as their FuncAttrKind, in    *)
(* source order, and its signature [inputs, output], an input being the    *)
(* text of its type ("self" for a receiver).                               *)

MaxAttrs == 3        \* most attributes on one function

FuncAttrKinds == {"Endpoint", "BeforeFund", "Fundable", "Other"}

\* the error messages, without their backticks and with cannot for can't
EndpointTwice   == "Each function can be annotated with #[endpoint] exactly once."
BeforeFundTwice == "Each function can be annotated with #[before_fund] exactly once."
FundableTwice   == "Each function can be annotated with #[fundable(..)] exactly once."
EndpointAndBeforeFund == "#[endpoint] and #[before_fund] cannot co-exist."
BeforeFundAndFundable == "#[before_fund] and #[fundable(..)] cannot co-exist."
FundableAlone   == "#[fundable(..)] cannot be used without #[endpoint]"
FundableBelow   == "#[fundable(..)] should be placed above #[endpoint]"
BeforeFundSig   == "#[before_fund] annotated function should have signature of fn(value: svm_sdk::Amount) -> ()"

NotSeen == [endpoint |-> FALSE, fundable |-> FALSE, before_fund |-> FALSE]

\* the loop of validate_attrs_no_dups, from attribute i on
RECURSIVE validate_attrs_no_dups_from(_, _, _)
validate_attrs_no_dups_from(attrs, i, seen) ==
    IF i > Len(attrs) THEN Ok(<<>>)
    ELSE CASE attrs[i] = "Endpoint" ->
                  IF seen.endpoint THEN Err(EndpointTwice)
                  ELSE validate_attrs_no_dups_from(attrs, i + 1, [seen EXCEPT !.endpoint = TRUE])
           [] attrs[i] = "BeforeFund" ->
                  IF seen.before_fund THEN Err(BeforeFundTwice)
                  ELSE validate_attrs_no_dups_from(attrs, i + 1,
                                                   [seen EXCEPT !.before_fund = TRUE])
           [] attrs[i] = "Fundable" ->
                  IF seen.fundable THEN Err(FundableTwice)
                  ELSE validate_attrs_no_dups_from(attrs, i + 1, [seen EXCEPT !.fundable = TRUE])
           [] attrs[i] = "Other" ->
                  validate_attrs_no_dups_from(attrs, i + 1, seen)

validate_attrs_no_dups(attrs) == validate_attrs_no_dups_from(attrs, 1, NotSeen)

\* the loop of validate_attrs_usage: the kinds seen in the whole list
RECURSIVE validate_attrs_usage_seen(_, _, _)
validate_attrs_usage_seen(attrs, i, seen) ==
    IF i > Len(attrs) THEN seen
    ELSE validate_attrs_usage_seen(attrs, i + 1,
             CASE attrs[i] = "Endpoint"   -> [seen EXCEPT !.endpoint = TRUE]
               [] attrs[i] = "BeforeFund" -> [seen EXCEPT !.before_fund = TRUE]
               [] attrs[i] = "Fundable"   -> [seen EXCEPT !.fundable = TRUE]
               [] attrs[i] = "Other"      -> seen)

validate_attrs_usage_of(seen) ==
    IF seen.endpoint /\ seen.before_fund THEN Err(EndpointAndBeforeFund)
    ELSE IF seen.fundable /\ seen.before_fund THEN Err(BeforeFundAndFundable)
    ELSE IF seen.fundable /\ ~seen.endpoint THEN Err(FundableAlone)
    ELSE Ok(<<>>)

validate_attrs_usage(attrs) ==
    validate_attrs_usage_of(validate_attrs_usage_seen(attrs, 1, NotSeen))

\* the loop of validate_attrs_order, from attribute i on
RECURSIVE validate_attrs_order_from(_, _, _)
validate_attrs_order_from(attrs, i, seen_endpoint) ==
    IF i > Len(attrs) THEN Ok(<<>>)
    ELSE CASE attrs[i] = "Endpoint" -> validate_attrs_order_from(attrs, i + 1, TRUE)
           [] attrs[i] = "Fundable" ->
                  IF seen_endpoint THEN Err(FundableBelow)
                  ELSE validate_attrs_order_from(attrs, i + 1, seen_endpoint)
           [] OTHER -> validate_attrs_order_from(attrs, i + 1, seen_endpoint)

validate_attrs_order(attrs) == validate_attrs_order_from(attrs, 1, FALSE)

validate_attrs_without_order(attrs) ==
    IF validate_attrs_no_dups(attrs).tag = "Err" THEN validate_attrs_no_dups(attrs)
    ELSE validate_attrs_usage(attrs)

\* validate_attrs: no_dups?, usage?, order?
validate_attrs(attrs) ==
    IF validate_attrs_no_dups(attrs).tag = "Err" THEN validate_attrs_no_dups(attrs)
    ELSE IF validate_attrs_usage(attrs).tag = "Err" THEN validate_attrs_usage(attrs)
    ELSE validate_attrs_order(attrs)

has_attr(attrs, kind) == \E i \in 1..Len(attrs) : attrs[i] = kind

validate_before_fund_func_sig(func) ==
    IF Len(func.sig.inputs) # 1 \/ (func.sig.output = "Default") = FALSE
    THEN Err(BeforeFundSig)
    ELSE IF func.sig.inputs[1] \in {"svm_sdk :: Amount", "Amount"}
    THEN Ok(<<>>)
    ELSE Err(BeforeFundSig)

\* endpoint::expand(func, attrs): the expansion of an endpoint
endpoint_expand(func, attrs) == Ok("endpoint")

expand_before_fund_attr(func, attrs) ==
    IF validate_before_fund_func_sig(func).tag = "Err"
    THEN validate_before_fund_func_sig(func)
    ELSE Ok("before_fund")

expand_func(func, attrs) == Ok("func")

\* rewrite_func, after func_attrs has parsed the attributes
rewrite_func(func) ==
    IF validate_attrs(func.attrs).tag = "Err" THEN validate_attrs(func.attrs)
    ELSE IF has_attr(func.attrs, "Endpoint") THEN endpoint_expand(func, func.attrs)
    ELSE IF has_attr(func.attrs, "BeforeFund") THEN expand_before_fund_attr(func, func.attrs)
    ELSE expand_func(func, func.attrs)

(* SpecMacro: rewrite_func applied to one annotated function               *)

\* the signatures of the tests of function.rs, and a method
Signatures ==
    { [inputs |-> <<>>, output |-> "Default"],
      [inputs |-> <<"svm_sdk :: Amount">>, output |-> "Default"],
      [inputs |-> <<"Amount">>, output |-> "Default"],
      [inputs |-> <<"svm_sdk :: Amount", "svm_sdk :: Amount">>, output |-> "Default"],
      [inputs |-> <<"svm_sdk :: Amount">>, output |-> "Type"],
      [inputs |-> <<"svm_sdk :: Address">>, output |-> "Default"],
      [inputs |-> <<"self">>, output |-> "Default"] }

InitMacro ==
    /\ \E attrs \in SeqsUpTo(FuncAttrKinds, MaxAttrs), sig \in Signatures :
          fn_func = [attrs |-> attrs, sig |-> sig]
    /\ fn_ret = <<>>
    /\ debug = FALSE
    /\ pc = "macro"
    /\ IdleNibble
    /\ IdleWire
    /\ IdleCodec
    /\ IdlePage
    /\ IdleImport
    /\ IdleKV
    /\ IdleApi
    /\ IdleAlloc
    /\ IdleVault

RewriteFunc ==
    /\ pc = "macro"
    /\ fn_ret' = rewrite_func(fn_func)
    /\ pc' = "rewritten"
    /\ UNCHANGED <<fn_func, debug, nibbleVars, wireVars, codecVars, pageVars, importVars,
                   kvVars, apiVars, allocVars, vaultVars>>

NextMacro == RewriteFunc

SpecMacro == InitMacro /\ [][NextMacro]_vars

AttrErrors ==
    { EndpointTwice, BeforeFundTwice, FundableTwice, EndpointAndBeforeFund,
      BeforeFundAndFundable, FundableAlone, FundableBelow }

Occurrences(attrs, kind) == Cardinality({i \in 1..Len(attrs) : attrs[i] = kind})

\* the attribute lists the rules forbid
Forbidden(attrs) ==
    \/ \E kind \in {"Endpoint", "BeforeFund", "Fundable"} : Occurrences(attrs, kind) > 1
    \/ Occurrences(attrs, "Endpoint") > 0 /\ Occurrences(attrs, "BeforeFund") > 0
    \/ Occurrences(attrs, "BeforeFund") > 0 /\ Occurrences(attrs, "Fundable") > 0
    \/ Occurrences(attrs, "Fundable") > 0 /\ Occurrences(attrs, "Endpoint") = 0
    \/ \E i, j \in 1..Len(attrs) : i < j /\ attrs[i] = "Endpoint" /\ attrs[j] = "Fundable"

WithoutOthers(func) ==
    [func EXCEPT !.attrs = SelectSeq(@, LAMBDA kind : kind # "Other")]

\* C24: rewrite_func fails with one of the attribute errors exactly when
\* endpoint, before_fund or fundable occurs more than once, or endpoint and
\* before_fund both occur, or before_fund and fundable both occur, or
\* fundable occurs without endpoint, or fundable comes after endpoint; its
\* result is the one it gives with all other attributes removed; and a
\* function whose attributes pass fails only for the signature of a
\* before_fund function.
AttributeRulesExact ==
    pc = "rewritten" =>
        /\ (fn_ret.tag = "Err" /\ fn_ret.err \in AttrErrors) <=> Forbidden(fn_func.attrs)
        /\ fn_ret = rewrite_func(WithoutOthers(fn_func))
        /\ (fn_ret.tag = "Err" /\ fn_ret.err \notin AttrErrors) =>
               /\ fn_ret.err = BeforeFundSig
               /\ has_attr(fn_func.attrs, "BeforeFund")

\* endpoint_and_fundable_attrs_wrong_order, with another attribute on top
FundableBelowEndpoint ==
    /\ pc = "rewritten"
    /\ fn_func.attrs = <<"Other", "Endpoint", "Fundable">>
    /\ fn_ret = Err(FundableBelow)
    /\ fn_func.sig.inputs = <<>>

-----------------------------------------------------------------------------
(* svm-runtime-c-api: svm_imports_alloc and svm_import_func_new            *)
(*                                                                         *)
(* The imports vector is [vec, capacity]; Vec::with_capacity(count) is     *)
(* taken to reserve exactly `count` elements.  A pointer is an integer,    *)
(* Null the null pointer.                                                  *)

MaxImports == 2      \* largest `count` passed to svm_imports_alloc

Null == 0

svm_imports_alloc(count) == [vec |-> <<>>, capacity |-> count]

\* Vec::<WasmType>::try_from(svm_byte_array): one tag byte per type
VecWasmType_try_from(bytes) ==
    IF \A i \in 1..Len(bytes) : bytes[i] \in {0, 1}
    THEN Ok([i \in 1..Len(bytes) |-> IF bytes[i] = 0 THEN "I32" ELSE "I64"])
    ELSE Err("io::Error")

\* String::try_from(svm_byte_array)
String_try_from(bytes) ==
    IF IsValidUTF8(bytes) THEN Ok(bytes) ELSE Err("FromUtf8Error")

ImportRet(panic, code, error, imports_) ==
    [panic |-> panic, code |-> code, error |-> error, imports |-> imports_]

ImportOf(namespace, import_name, func, host_env, params, returns) ==
    [name |-> import_name, namespace |-> namespace,
     import |-> ExternImport_new(params, returns), func |-> func, host_env |-> host_env]

svm_import_func_new_pushes_first(imports_, namespace, import_name, func, host_env, params, returns) ==
    IF ~(Len(imports_.vec) < imports_.capacity)
    THEN ImportRet(TRUE, "", "", imports_)
    ELSE IF host_env = Null \/ VecWasmType_try_from(params).tag = "Err"
              \/ VecWasmType_try_from(returns).tag = "Err"
              \/ String_try_from(import_name).tag = "Err"
    THEN ImportRet(FALSE, "SVM_FAILURE", "invalid argument", imports_)
    ELSE IF String_try_from(namespace).tag = "Err"
    THEN ImportRet(FALSE, "SVM_FAILURE", String_try_from(namespace).err,
                   [imports_ EXCEPT !.vec =
                       Append(@, ImportOf(namespace, import_name, func, host_env,
                                          VecWasmType_try_from(params).val,
                                          VecWasmType_try_from(returns).val))])
    ELSE ImportRet(FALSE, "SVM_SUCCESS", "",
                   [imports_ EXCEPT !.vec =
                       Append(@, ImportOf(namespace, import_name, func, host_env,
                                          VecWasmType_try_from(params).val,
                                          VecWasmType_try_from(returns).val))])

\* svm_import_func_new(imports, namespace, import_name, func, host_env,
\*                     params, returns, error)
svm_import_func_new(imports_, namespace, import_name, func, host_env, params, returns) ==
    IF ~(Len(imports_.vec) < imports_.capacity)
    THEN ImportRet(TRUE, "", "", imports_)
    ELSE IF host_env = Null
    THEN ImportRet(FALSE, "SVM_FAILURE", "host_env parameter must not be NULL", imports_)
    ELSE IF VecWasmType_try_from(params).tag = "Err"
    THEN ImportRet(FALSE, "SVM_FAILURE", VecWasmType_try_from(params).err, imports_)
    ELSE IF VecWasmType_try_from(returns).tag = "Err"
    THEN ImportRet(FALSE, "SVM_FAILURE", VecWasmType_try_from(returns).err, imports_)
    ELSE IF String_try_from(import_name).tag = "Err"
    THEN ImportRet(FALSE, "SVM_FAILURE", String_try_from(import_name).err, imports_)
    ELSE IF String_try_from(namespace).tag = "Err"
    THEN ImportRet(FALSE, "SVM_FAILURE", String_try_from(namespace).err, imports_)
    ELSE ImportRet(FALSE, "SVM_SUCCESS", "",
                   [imports_ EXCEPT !.vec =
                       Append(@, ImportOf(namespace, import_name, func, host_env,
                                          VecWasmType_try_from(params).val,
                                          VecWasmType_try_from(returns).val))])

(* SpecAlloc: a host filling the imports vector it allocated               *)

\* "host" / "foo", and bytes that are no UTF-8
NamespaceArgs == { <<104, 111, 115, 116>>, <<255>> }
ImportNameArgs == { <<102, 111, 111>>, <<192, 128>> }

\* [I32, I32], [I64], no types, and a byte that is no type
TypeArgs == { <<0, 0>>, <<1>>, <<>>, <<9>> }

HostEnvArgs == { Null, 7 }

InitAlloc ==
    /\ \E count \in 0..MaxImports :
          /\ imports = svm_imports_alloc(count)
          /\ imports_ret = [fn |-> "svm_imports_alloc", count |-> count]
    /\ debug = FALSE
    /\ pc = "alloc"
    /\ IdleNibble
    /\ IdleWire
    /\ IdleCodec
    /\ IdlePage
    /\ IdleImport
    /\ IdleKV
    /\ IdleApi
    /\ IdleMacro
    /\ IdleVault

SvmImportFuncNew ==
    /\ pc = "alloc"
    /\ \E namespace \in NamespaceArgs, import_name \in ImportNameArgs,
          host_env \in HostEnvArgs, params \in TypeArgs, returns \in TypeArgs :
          LET r == svm_import_func_new(imports, namespace, import_name, 1, host_env,
                                       params, returns)
          IN  /\ imports' = r.imports
              /\ imports_ret' = [fn |-> "svm_import_func_new", count |-> imports_ret.count,
                                 namespace |-> namespace, import_name |-> import_name,
                                 host_env |-> host_env, params |-> params,
                                 returns |-> returns, before |-> imports,
                                 panic |-> r.panic, code |-> r.code, error |-> r.error]
              /\ pc' = IF r.panic THEN "panicked" ELSE "alloc"
    /\ UNCHANGED <<debug, nibbleVars, wireVars, codecVars, pageVars, importVars,
                   kvVars, apiVars, macroVars, vaultVars>>

NextAlloc == SvmImportFuncNew

SpecAlloc == InitAlloc /\ [][NextAlloc]_vars

\* host_env is null, or params, returns, the name or the namespace is malformed
MalformedImport(r) ==
    \/ r.host_env = Null
    \/ \E i \in 1..Len(r.params) : r.params[i] \notin {0, 1}
    \/ \E i \in 1..Len(r.returns) : r.returns[i] \notin {0, 1}
    \/ ~IsValidUTF8(r.import_name)
    \/ ~IsValidUTF8(r.namespace)

\* C25, as stated: a call of svm_import_func_new with a malformed argument
\* returns SVM_FAILURE with an error message and leaves the imports vector
\* unchanged.
MalformedImportReturnsFailure ==
    (imports_ret.fn = "svm_import_func_new" /\ MalformedImport(imports_ret)) =>
        /\ imports_ret.code = "SVM_FAILURE"
        /\ imports_ret.error # ""
        /\ imports = imports_ret.before

\* C25, amended: a call of svm_import_func_new on a vector that holds fewer
\* imports than the count given to svm_imports_alloc returns SVM_FAILURE
\* with an error message and leaves the vector unchanged when an argument is
\* malformed, and otherwise returns SVM_SUCCESS with exactly the new import
\* appended; a call on a full vector panics and leaves it unchanged; the
\* vector never holds more imports than that count.
ImportAllOrNothing ==
    /\ imports_ret.fn = "svm_import_func_new" =>
          IF Len(imports_ret.before.vec) >= imports_ret.count
          THEN imports_ret.panic /\ pc = "panicked" /\ imports = imports_ret.before
          ELSE IF MalformedImport(imports_ret)
          THEN /\ imports_ret.code = "SVM_FAILURE"
               /\ imports_ret.error # ""
               /\ imports = imports_ret.before
          ELSE /\ imports_ret.code = "SVM_SUCCESS"
               /\ Len(imports.vec) = Len(imports_ret.before.vec) + 1
               /\ SubSeq(imports.vec, 1, Len(imports_ret.before.vec)) = imports_ret.before.vec
               /\ imports.vec[Len(imports.vec)].name = imports_ret.import_name
    /\ pc \in {"alloc", "panicked"} => Len(imports.vec) <= imports_ret.count

\* a call with a namespace that is no UTF-8 failed on a vector that holds
\* one import and has room for another
ImportRejectedWithRoom ==
    /\ pc = "alloc"
    /\ imports_ret.fn = "svm_import_func_new"
    /\ imports_ret.code = "SVM_FAILURE"
    /\ imports_ret.namespace = <<255>>
    /\ imports_ret.host_env # Null
    /\ Len(imports.vec) = 1
    /\ imports_ret.count = 2

-----------------------------------------------------------------------------
(* svm-runtime: the buffers of the import callback                         *)

\* C28: after every call that reached the host function the argument buffer
\* and the results buffer have each been released exactly once, the trap has
\* been released exactly once if the host returned one and does not exist
\* otherwise, and no buffer was used or released while not live; this holds
\* on the trap path, the successful path and the 'Invalid WASM values' path.
BuffersReleasedOnce ==
    (pc = "returned" /\ imp_host.invoked) =>
        /\ imp_mem.faults = {}
        /\ imp_mem.releases["args"] = 1
        /\ imp_mem.releases["results"] = 1
        /\ imp_mem.releases["trap"] = (IF imp_host.trap.tag = "Some" THEN 1 ELSE 0)
        /\ imp_mem.state["args"] = "released"
        /\ imp_mem.state["results"] = "released"
        /\ imp_mem.state["trap"] = (IF imp_host.trap.tag = "Some" THEN "released" ELSE "none")

\* the host returned no trap and results that do not fit the declared
\* returns: the callback failed with 'Invalid WASM values'
InvalidValuesPathReleased ==
    /\ pc = "returned"
    /\ imp_host.invoked
    /\ imp_host.trap = NoneOption
    /\ imp_ret = Err(RuntimeError_new(InvalidWasmValues))
    /\ imp_mem.state["results"] = "released"
    /\ Len(imp_import.returns) = 2

-----------------------------------------------------------------------------
(* apps/vault/core/src/actions/initialize.rs: the constructor of the vault *)
(* app, and the validation of the spawn transaction that carries its       *)
(* calldata (api.rs, svm_validate_app)                                     *)

MasterKeysMessage == "Master Keys must be different from one another."

\* impl From<bool> for VaultType
VaultType_from(ty) == IF ty THEN "MultiSig" ELSE "Simple"

\* what the constructor has done: the VaultData stores in order, and the
\* message of the panic that ended it ("" when it ran to its end)
Stored(stores) == [stores |-> stores, panic |-> FALSE, message |-> ""]
Panicked(stores, message) == [stores |-> stores, panic |-> TRUE, message |-> message]

store_type(ty) == [op |-> "store_type", ty |-> ty]
store_master_account(addr, nth) == [op |-> "store_master_account", addr |-> addr, nth |-> nth]
store_spending_limit(limit) == [op |-> "store_spending_limit", limit |-> limit]
store_spending_account(account) == [op |-> "store_spending_account", account |-> account]

\* assert_not_same(addr1, addr2): ensure!(addr1 != addr2, ...), the derived
\* PartialEq of Address compares the 20 bytes
assert_not_same(addr1, addr2) == addr1 # addr2

\* simple_initialize(calldata); From<Value> for [Address; 1] asserts the length
simple_initialize(masters) ==
    IF Len(masters) # 1 THEN Panicked(<<>>, "assertion failed")
    ELSE Stored(<<store_type("Simple"), store_master_account(masters[1], 1)>>)

multisig_initialize_stores_first(masters) ==
    IF Len(masters) # 3 THEN Panicked(<<>>, "assertion failed")
    ELSE IF ~assert_not_same(masters[1], masters[2])
    THEN Panicked(<<>>, MasterKeysMessage)
    ELSE IF ~assert_not_same(masters[1], masters[3])
    THEN Panicked(<<>>, MasterKeysMessage)
    ELSE IF ~assert_not_same(masters[2], masters[3])
    THEN Panicked(<<store_type("MultiSig"), store_master_account(masters[1], 1)>>,
                  MasterKeysMessage)
    ELSE Stored(<<store_type("MultiSig"), store_master_account(masters[1], 1),
                  store_master_account(masters[2], 2),
                  store_master_account(masters[3], 3)>>)

\* multisig_initialize(calldata)
multisig_initialize(masters) ==
    IF Len(masters) # 3 THEN Panicked(<<>>, "assertion failed")
    ELSE IF ~assert_not_same(masters[1], masters[2])
    THEN Panicked(<<>>, MasterKeysMessage)
    ELSE IF ~assert_not_same(masters[1], masters[3])
    THEN Panicked(<<>>, MasterKeysMessage)
    ELSE IF ~assert_not_same(masters[2], masters[3])
    THEN Panicked(<<>>, MasterKeysMessage)
    ELSE Stored(<<store_type("MultiSig"), store_master_account(masters[1], 1),
                  store_master_account(masters[2], 2),
                  store_master_account(masters[3], 3)>>)

\* the tail of initialize: the optional spending limit and spending account
initialize_spending(done, limit, account) ==
    IF done.panic THEN done
    ELSE Stored(done.stores
                \o (IF limit.tag = "Some" THEN <<store_spending_limit(limit.val)>>
                    ELSE <<>>)
                \o (IF account.tag = "Some" THEN <<store_spending_account(account.val)>>
                    ELSE <<>>))

\* initialize()
initialize(calldata) ==
    initialize_spending(IF VaultType_from(calldata.ty) = "Simple"
                        THEN simple_initialize(calldata.masters)
                        ELSE multisig_initialize(calldata.masters),
                        calldata.limit, calldata.account)

\* svm_validate_app(runtime, bytes, error)
svm_validate_app(rt, bytes) ==
    IF validate_app(bytes).tag = "Ok"
    THEN [code |-> "SVM_SUCCESS", error |-> ""]
    ELSE [code |-> "SVM_FAILURE", error |-> validate_app(bytes).err]

(* SpecVault: a spawn transaction of the vault template is validated, then *)
(* its constructor runs in the sandbox                                     *)

\* three addresses, and one that differs from the first in its last byte
VaultAddresses ==
    { Address20(1), Address20(2), Address20(3), [Address20(1) EXCEPT ![AddressLen] = 2] }

VaultMasters ==
    { <<a>> : a \in VaultAddresses }
    \cup { <<a, b, c>> : a \in VaultAddresses, b \in VaultAddresses, c \in VaultAddresses }

VaultCallData ==
    [ty : BOOLEAN, masters : VaultMasters,
     limit : {NoneOption, Some(5)},
     account : {NoneOption, Some(Address20(1))}]

\* the spawn transaction: its bytes decode, or are cut short
VaultTx(kind, calldata) ==
    [kind |-> kind, addr |-> TemplateAddr, name |-> "initialize", data |-> calldata]

InitVault ==
    /\ \E calldata \in VaultCallData, kind \in {"spawn", "cut"} :
          vault_tx = VaultTx(kind, calldata)
    /\ vault = <<>>
    /\ vault_ret = [fn |-> "", validated |-> "", code |-> "", error |-> "",
                    constructor |-> FALSE]
    /\ debug = FALSE
    /\ pc = "vault"
    /\ IdleNibble
    /\ IdleWire
    /\ IdleCodec
    /\ IdlePage
    /\ IdleImport
    /\ IdleKV
    /\ IdleApi
    /\ IdleMacro
    /\ IdleAlloc

\* the host validates the transaction
SvmValidateApp ==
    /\ pc = "vault"
    /\ LET r == svm_validate_app(<<>>, vault_tx)
       IN  vault_ret' = [vault_ret EXCEPT !.fn = "svm_validate_app",
                                          !.validated = r.code,
                                          !.code = r.code, !.error = r.error]
    /\ pc' = "validated"
    /\ UNCHANGED <<debug, nibbleVars, wireVars, codecVars, pageVars, importVars,
                   kvVars, apiVars, macroVars, allocVars, vault_tx, vault>>

\* the host executes the transaction: the runtime decodes it and runs the
\* constructor in the sandbox; a panic there discards the stores and fails
\* the receipt
SvmSpawnVault ==
    /\ pc \in {"vault", "validated"}
    /\ IF validate_app(vault_tx).tag = "Err"
       THEN /\ vault' = <<>>
            /\ vault_ret' = [vault_ret EXCEPT !.fn = "svm_spawn_app",
                                              !.code = "SVM_SUCCESS",
                                              !.error = validate_app(vault_tx).err]
       ELSE /\ vault' = initialize(vault_tx.data)
            /\ vault_ret' = [vault_ret EXCEPT !.fn = "svm_spawn_app",
                                              !.code = "SVM_SUCCESS",
                                              !.error = initialize(vault_tx.data).message,
                                              !.constructor = TRUE]
    /\ pc' = "spawned"
    /\ UNCHANGED <<debug, nibbleVars, wireVars, codecVars, pageVars, importVars,
                   kvVars, apiVars, macroVars, allocVars, vault_tx>>

NextVault == SvmValidateApp \/ SvmSpawnVault

SpecVault == InitVault /\ [][NextVault]_vars

\* the calldata is for a multisig vault with three masters
MultisigOfThree(calldata) ==
    VaultType_from(calldata.ty) = "MultiSig" /\ Len(calldata.masters) = 3

ThreeIdentical(calldata) ==
    /\ MultisigOfThree(calldata)
    /\ calldata.masters[1] = calldata.masters[2]
    /\ calldata.masters[2] = calldata.masters[3]

SomeTwoEqual(calldata) ==
    /\ MultisigOfThree(calldata)
    /\ \E i \in 1..3, j \in 1..3 : i # j /\ calldata.masters[i] = calldata.masters[j]

\* C23: a spawn transaction for a multisig vault that supplies three
\* identical master addresses fails validation: svm_validate_app returns
\* SVM_FAILURE for it, and the vault constructor never runs on it.
MultisigGuardAtValidation ==
    (vault_tx.kind = "spawn" /\ ThreeIdentical(vault_tx.data)) =>
        /\ vault_ret.validated # "SVM_SUCCESS"
        /\ ~vault_ret.constructor

\* C30: when two of the three masters of a multisig vault are equal, the
\* constructor ends with the Master Keys message and no VaultData store was
\* made (no type, no master, no spending limit, no spending account); when
\* the three are pairwise distinct it does not fail, and its first four
\* stores are the type MultiSig and the masters 1, 2, 3 in calldata order.
MultisigCheckBeforeWrite ==
    (vault_ret.constructor /\ MultisigOfThree(vault_tx.data)) =>
        IF SomeTwoEqual(vault_tx.data)
        THEN /\ vault.panic
             /\ vault.message = MasterKeysMessage
             /\ vault.stores = <<>>
        ELSE /\ ~vault.panic
             /\ Len(vault.stores) >= 4
             /\ vault.stores[1] = [op |-> "store_type", ty |-> "MultiSig"]
             /\ \A n \in 1..3 :
                   vault.stores[n + 1] =
                       [op |-> "store_master_account",
                        addr |-> vault_tx.data.masters[n], nth |-> n]

\* exactly the second and third master are equal, a spending limit and a
\* spending account were supplied, and the constructor has run
TwoEqualMastersNothingStored ==
    /\ vault_ret.constructor
    /\ MultisigOfThree(vault_tx.data)
    /\ vault_tx.data.masters[2] = vault_tx.data.masters[3]
    /\ vault_tx.data.masters[1] # vault_tx.data.masters[2]
    /\ vault_tx.data.limit.tag = "Some"
    /\ vault_tx.data.account.tag = "Some"
    /\ vault.stores = <<>>

=============================================================================
